---- MODULE Spec2Model ----
(***************************************************************************)
(* A model of the MIAT forensic analyzer (analyze/engines/apple.py) and of *)
(* the video parse pipeline that feeds it (parsers/video_file.py and the   *)
(* NAL framers of parsers/codecs/video).                                   *)
(*                                                                         *)
(* Spec      : analyze_apple over a list of parsed records.                *)
(* ParseSpec : VideoFile.parse_video_codec for one track: demux, NAL       *)
(*             framing, NAL dispatch.                                      *)
(*                                                                         *)
(* A parsed record is a large immutable tree.  The part of it that every   *)
(* all_parsed_data holds one entry per file; the parts of a record that a  *)
(* loop of analyze_apple reads (edit list, sample tables, first video      *)
(* stream; tkhd) are drawn at the step that first reads them and kept: in  *)
(* the loop's locals until the iteration ends, and tkhd, which two loops   *)
(* read, in the variable tkhd.                                             *)
(***************************************************************************)
EXTENDS Integers, Sequences, FiniteSets, TLC

VARIABLES
    all_parsed_data,   \* analyze_apple's argument: one entry per parsed file
    pc,                \* control point of analyze_apple
    idx,               \* 1-based position of the loop variable `video`
    trak,              \* first trak of `video`: edts/elst and stbl.ctts
    branch,            \* the path the trim analysis of `video` took
    media_time,        \* local media_time
    stts,              \* trak.mdia.minf.stbl.stts.entries, once read
    moof,              \* video.container.moof, once read
    stream,            \* video.video_streams[0], once read
    codec_name,        \* local codec_name of the demux step
    start_offset,      \* local start_offset
    unreferenced_frame_range,   \* local unreferenced_frame_range
    result,            \* local `result` (the last CompletedProcess)
    tkhd,              \* per file: whether the first trak has a tkhd, once read
    trim_out,          \* per file: the trim verdicts printed, in order
    matrix_out,        \* per file: the orientation finding was printed
    crop_out,          \* per file: the crop/metadata finding was printed
    exc                \* the exception that left analyze_apple, if any

avars == <<all_parsed_data, pc, idx, trak, branch, media_time, stts, moof,
           stream, codec_name, start_offset, unreferenced_frame_range,
           result, tkhd, trim_out, matrix_out, crop_out, exc>>

VARIABLES
    ppc,               \* control point of VideoFile.parse_video_codec
    source,            \* "mp4": called from handle_mp4_codecs; "raw": from parse
    codec_type,        \* argument codec_type
    demux_result,      \* what subprocess.run did in demux_video
    video_stream_data, \* the elementary stream handed to the NAL parser
    nal_start_codes,   \* local nal_start_codes: <<start, end>> pairs, 0-based
    nal_units,         \* local nal_units
    count,             \* number of NAL units the dispatch loop has handled
    video_streams,     \* self.video_streams
    pexc               \* the exception that left parse_video_codec, if any

pvars == <<ppc, source, codec_type, demux_result, video_stream_data,
           nal_start_codes, nal_units, count, video_streams, pexc>>

VARIABLES
    epc,               \* control point of the EPB stripping runs
    epb_data,          \* argument `data` of remove_emulation_prevention_bytes
    epb_output,        \* what the call returned
    epb_output2        \* what a second call, on that output, returned

evars == <<epc, epb_data, epb_output, epb_output2>>

VARIABLES
    dpc,               \* control point of the NAL dispatch loop
    codec,             \* "H.264": parse_h264_nal_units; "H.265": parse_hevc_nal_units
    oob,               \* the arguments sps/pps(/vps) were given (not None)
    nals,              \* the framed NAL units, in stream order
    nal_index,         \* number of NAL units the dispatch loop has handled
    parsed_sps,        \* local parsed_sps (H.264: the value, if any; H.265: the list)
    parsed_pps,        \* local parsed_pps (likewise)
    parsed_data,       \* per NAL unit: its nal['parsed_data']
    parsed_slice_segments,   \* local parsed_slice_segments
    dexc               \* the exception that left the parser, if any

dvars == <<dpc, codec, oob, nals, nal_index, parsed_sps, parsed_pps,
           parsed_data, parsed_slice_segments, dexc>>

VARIABLES
    hpc,               \* control point of the HEIF branch of handle_mp4_codecs
    boxes,             \* meta['iprp']['boxes'], in on-disk order
    box_index,         \* the box the outer loop is at
    prop_index,        \* the property the inner loop is at
    heif_codec_type,   \* local codec_type
    heif_sps,          \* local sps (pps and vps are set with it)
    heif_call          \* what parse_video_codec went on to call

hvars == <<hpc, boxes, box_index, prop_index, heif_codec_type, heif_sps,
           heif_call>>

VARIABLES
    spc,               \* control point of parse mode for one walked file
    file,              \* the file's name, as a sequence of pieces
    route,             \* the list main put it on: video_files or image_files
    container,         \* the parser VideoFile / ImageFile chose for it
    sexc               \* the exception that left parse(), if any

svars == <<spc, file, route, container, sexc>>

VARIABLES
    kpc,               \* control point: one NAL unit through parse_nal_unit, parse_sps
    sps_unit,          \* the NAL unit's bytes, with its start code if it has one
    sps_has_start_code,   \* argument has_start_code
    sps_nal,           \* what parse_nal_unit returned
    sps_parsed         \* what parse_sps returned, or the exception it raised

kvars == <<kpc, sps_unit, sps_has_start_code, sps_nal, sps_parsed>>

VARIABLES
    rpc,               \* control point of the short-term RPS parse
    rps_caller,        \* "sps": the loop of parse_sps; "slice": the slice segment header
    rps_bits,          \* the BitStream bs, from the first bit the parse reads
    rps_pos,           \* bs.pos
    st_rps_idx,        \* argument st_rps_idx of the next call
    num_short_term_ref_pic_sets,   \* sps['num_short_term_ref_pic_sets']
    short_term_ref_pic_set,        \* the sets parsed so far, in order
    rexc               \* the exception that left the parse, if any

rvars == <<rpc, rps_caller, rps_bits, rps_pos, st_rps_idx,
           num_short_term_ref_pic_sets, short_term_ref_pic_set, rexc>>

VARIABLES
    sh_pc,             \* control point of the slice header parse
    sh_codec,          \* "H.265": parse_slice_segment_header; "H.264": parse_slice_header
    sh_bits,           \* the BitStream bs, from the first bit the part modelled reads
    sh_pos,            \* bs.pos
    nal_unit_type,     \* argument nal_unit_type
    sh_sps,            \* argument sps: the fields the part modelled reads
    sh_pps,            \* argument pps: the fields the part modelled reads
    slice_header,      \* local slice_header
    pred_weight_table, \* what parse_pred_weight_table returned, with its loop counts
    sh_exc             \* the exception that left the function, if any

gvars == <<sh_pc, sh_codec, sh_bits, sh_pos, nal_unit_type, sh_sps, sh_pps,
           slice_header, pred_weight_table, sh_exc>>

VARIABLES
    sei_pc,            \* control point of parse_sei_prefix
    sei_bits,          \* the BitStream bs over the argument data
    sei_sps,           \* argument sps: "None", or an SPS without VUI parameters
    sei_pos,           \* bs.pos
    message,           \* what parse_sei_message returned in this iteration
    start_pos,         \* parse_sei_payload's local start_pos
    messages,          \* sei_prefix['messages']
    sei_exc            \* the exception that left the function, if any

mvars == <<sei_pc, sei_bits, sei_sps, sei_pos, message, start_pos,
           messages, sei_exc>>

(* what the steps of one specification leave alone *)
outside_analyze == <<pvars, evars, dvars, hvars, svars, kvars, rvars, gvars, mvars>>
outside_parse == <<avars, evars, dvars, hvars, svars, kvars, rvars, gvars, mvars>>
outside_epb == <<avars, pvars, dvars, hvars, svars, kvars, rvars, gvars, mvars>>
outside_dispatch == <<avars, pvars, evars, hvars, svars, kvars, rvars, gvars, mvars>>
outside_heif == <<avars, pvars, evars, dvars, svars, kvars, rvars, gvars, mvars>>
outside_select == <<avars, pvars, evars, dvars, hvars, kvars, rvars, gvars, mvars>>
outside_sps == <<avars, pvars, evars, dvars, hvars, svars, rvars, gvars, mvars>>
outside_rps == <<avars, pvars, evars, dvars, hvars, svars, kvars, gvars, mvars>>
outside_slice_header == <<avars, pvars, evars, dvars, hvars, svars, kvars, rvars, mvars>>
outside_sei == <<avars, pvars, evars, dvars, hvars, svars, kvars, rvars, gvars>>

vars == <<avars, pvars, evars, dvars, hvars, svars, kvars, rvars, gvars, mvars>>

-----------------------------------------------------------------------------
(* Bounds of the model *)

MaxFiles == 2
MaxElst == 2
MaxSttsEntries == 2
MaxSamples == 4

(* elst media_time of an empty edit: b'\xFF\xFF\xFF\xFF', -1 as a signed field *)
EmptyEdit == -1

-----------------------------------------------------------------------------
(* Python values that take part in dict.get defaults and == comparisons *)

PyInt(n) == [t |-> "int", v |-> n]
PyStr(s) == [t |-> "str", v |-> s]
PyNone == [t |-> "none", v |-> 0]

(* dict.get(key, default) *)
Get(d, key, default) == IF key \in DOMAIN d THEN d[key] ELSE default

SeqsUpTo(S, n) == UNION {[1..m -> S] : m \in 0..n}

-----------------------------------------------------------------------------
(* Inputs *)

MediaTimes == {0, 1200}
CttsOffsets == {700, 1200, 1900}
SttsEntries == {[sample_count |-> 3, sample_delta |-> 100],
                [sample_count |-> 30, sample_delta |-> 100],
                [sample_count |-> 30, sample_delta |-> 200]}
CompositionOffsets == {0, 200}
PocTypes == {0, 1, 2, 3}
SliceTypes == {0, 4, 7}
FrameNums == {PyInt(0), PyInt(5)}
FieldValues == {PyInt(0), PyInt(5), PyNone}

NoTrak == [edts |-> FALSE, elst |-> <<>>, ctts |-> FALSE, sample_offset |-> 0]

Traks ==
    {NoTrak}
    \cup {[edts |-> TRUE, elst |-> e, ctts |-> FALSE, sample_offset |-> 0] :
            e \in SeqsUpTo(MediaTimes \cup {EmptyEdit}, MaxElst)}
    \cup {[edts |-> TRUE, elst |-> e, ctts |-> TRUE, sample_offset |-> o] :
            e \in SeqsUpTo(MediaTimes \cup {EmptyEdit}, MaxElst), o \in CttsOffsets}

SttsTables == SeqsUpTo(SttsEntries, MaxSttsEntries)

(* container.moof: absent (empty), or a list whose first fragment's trun samples
   are what the analyzer reads *)
MoofLists == {<<>>} \cup {<<s>> : s \in SeqsUpTo(CompositionOffsets, MaxSamples)}

H264Headers ==
    {[slice_type |-> PyInt(st), frame_num |-> fn] :
        st \in SliceTypes, fn \in FrameNums}
    \cup {[slice_type |-> PyInt(st), frame_num |-> fn, pic_order_cnt_lsb |-> lsb] :
        st \in SliceTypes, fn \in FrameNums, lsb \in FieldValues}

HevcHeaders ==
    {[slice_type |-> PyStr("I")]}
    \cup {[slice_type |-> PyStr("P"), slice_pic_order_cnt_lsb |-> lsb] :
        lsb \in FieldValues}

NoStream == [codec |-> "none", has_sps |-> FALSE, pic_order_cnt_type |-> 0,
             slice_segments |-> <<>>]

Streams ==
    {NoStream}
    \cup {[codec |-> "H.264", has_sps |-> FALSE, pic_order_cnt_type |-> 0,
           slice_segments |-> <<>>]}
    \cup {[codec |-> "H.264", has_sps |-> TRUE, pic_order_cnt_type |-> p,
           slice_segments |-> s] :
            p \in PocTypes, s \in {<<>>} \cup {<<h>> : h \in H264Headers}}
    \cup {[codec |-> "H.265", has_sps |-> TRUE, pic_order_cnt_type |-> 0,
           slice_segments |-> s] :
            s \in {<<>>} \cup {<<h>> : h \in HevcHeaders}}

(* What one subprocess.run call can do *)
RunOutcomes == {"exit0", "nonzero", "FileNotFoundError", "OSError"}

(* The printed trim verdicts *)
V_UNKNOWN == "unknown file. (There is no unreferenced frames.)"
V_EDITED == "edited file. (There is no unreferenced frames.)"
V_EDITED_NOFRAMES == "edited file. (There is no unreferenced frames)"
V_EXTRACTED == "edited file. Extracted unreferenced frames."

-----------------------------------------------------------------------------
(* analyze_apple: the pure parts *)

(* apple.py 17-22: the media_time left by the loop over the elst entries *)
RECURSIVE LastMediaTime(_, _)
LastMediaTime(entries, acc) ==
    IF entries = <<>> THEN acc
    ELSE LastMediaTime(Tail(entries),
                       IF Head(entries) = EmptyEdit THEN acc ELSE Head(entries))

(* a variant of the condition below that tests only the effective media
   time, for comparison *)
NoTrimBranch_TOnly(t) ==
    LastMediaTime(t.elst, 0) - (IF t.ctts THEN t.sample_offset ELSE 0) = 0

(* apple.py 29: the condition of the no-trim branch *)
NoTrimBranch(t) ==
    \/ LastMediaTime(t.elst, 0) = 0
    \/ (t.ctts /\ LastMediaTime(t.elst, 0) - t.sample_offset = 0)

(* apple.py 55-64: media_time of the else branch *)
TrimMediaTime(t) ==
    IF t.ctts THEN LastMediaTime(t.elst, 0) - t.sample_offset
    ELSE LastMediaTime(t.elst, 0)

(* apple.py 30-52: what the no-trim branch prints, or the exception it raises *)
Printed(v) == [out |-> <<v>>, exc |-> "none"]
Nothing == [out |-> <<>>, exc |-> "none"]
Raises(e) == [out |-> <<>>, exc |-> e]

(* a variant of ClassifyH264 whose type-0 test compares with the string
   default '0' instead of the integer 0, for comparison *)
ClassifyH264_StrDefault(s) ==
    IF ~s.has_sps THEN Raises("TypeError")
    ELSE IF s.pic_order_cnt_type = 0 THEN
        IF s.slice_segments = <<>> THEN Raises("IndexError")
        ELSE IF Get(s.slice_segments[1], "pic_order_cnt_lsb", PyStr("0")) = PyStr("0")
             THEN Printed(V_UNKNOWN) ELSE Printed(V_EDITED)
    ELSE IF s.pic_order_cnt_type = 1 THEN
        IF s.slice_segments = <<>> THEN Raises("IndexError")
        ELSE IF (s.slice_segments[1].slice_type.v % 5) \in {2, 4}
             THEN Printed(V_UNKNOWN) ELSE Nothing
    ELSE IF s.pic_order_cnt_type = 2 THEN
        IF s.slice_segments = <<>> THEN Raises("IndexError")
        ELSE IF s.slice_segments[1].frame_num = PyInt(0)
             THEN Printed(V_UNKNOWN) ELSE Printed(V_EDITED)
    ELSE Nothing

ClassifyH264(s) ==
    IF ~s.has_sps THEN Raises("TypeError")
    ELSE IF s.pic_order_cnt_type = 0 THEN
        IF s.slice_segments = <<>> THEN Raises("IndexError")
        ELSE IF Get(s.slice_segments[1], "pic_order_cnt_lsb", PyStr("0")) = PyInt(0)
             THEN Printed(V_UNKNOWN) ELSE Printed(V_EDITED)
    ELSE IF s.pic_order_cnt_type = 1 THEN
        IF s.slice_segments = <<>> THEN Raises("IndexError")
        ELSE IF (s.slice_segments[1].slice_type.v % 5) \in {2, 4}
             THEN Printed(V_UNKNOWN) ELSE Nothing
    ELSE IF s.pic_order_cnt_type = 2 THEN
        IF s.slice_segments = <<>> THEN Raises("IndexError")
        ELSE IF s.slice_segments[1].frame_num = PyInt(0)
             THEN Printed(V_UNKNOWN) ELSE Printed(V_EDITED)
    ELSE Nothing

ClassifyHevc(s) ==
    IF s.slice_segments = <<>> THEN Raises("IndexError")
    ELSE IF Get(s.slice_segments[1], "pic_order_cnt_lsb", PyInt(0)) = PyInt(0)
         THEN Printed(V_UNKNOWN) ELSE Printed(V_EDITED)

ClassifyNoTrim(s) ==
    IF s.codec = "none" THEN Raises("IndexError")
    ELSE IF s.codec = "H.264" THEN ClassifyH264(s)
    ELSE IF s.codec = "H.265" THEN ClassifyHevc(s)
    ELSE Nothing

(* apple.py 70-73: the per-sample delta vector *)
RECURSIVE ExpandStts(_)
ExpandStts(entries) ==
    IF entries = <<>> THEN <<>>
    ELSE [j \in 1..entries[1].sample_count |-> entries[1].sample_delta]
         \o ExpandStts(Tail(entries))

(* apple.py 75-82 and 171-179: the scan.  i is the 0-based enumerate index;
   the loop ending without a break leaves start_offset at its initial 0 *)
(* ScanLoop_Inclusive is a variant that counts the current sample into the
   sum before comparing, for comparison *)
RECURSIVE ScanLoop_Inclusive(_, _, _, _)
ScanLoop_Inclusive(list, i, start_time, T) ==
    IF i >= Len(list) THEN 0
    ELSE IF start_time + list[i + 1] >= T THEN i - 1
    ELSE ScanLoop_Inclusive(list, i + 1, start_time + list[i + 1], T)

RECURSIVE ScanLoop(_, _, _, _)
ScanLoop(list, i, start_time, T) ==
    IF i >= Len(list) THEN 0
    ELSE IF start_time >= T THEN i - 1
    ELSE ScanLoop(list, i + 1, start_time + list[i + 1], T)

(* apple.py 105-117: the demux call with its FileNotFoundError fallback;
   142-158: the extraction call, whose `except Exception` leaves `result` as
   it was *)
DemuxCall(o1, o2) == IF o1 = "FileNotFoundError" THEN o2 ELSE o1

ExtractCall(o1, o2, stale) ==
    IF o1 = "FileNotFoundError" THEN o2
    ELSE IF o1 = "OSError" THEN stale
    ELSE o1

-----------------------------------------------------------------------------
(* analyze_apple: the state machine *)

(* the other pipelines are not running while analyze_apple runs *)
SeiIdle ==
    /\ sei_pc = "idle"
    /\ sei_bits = <<>>
    /\ sei_sps = "None"
    /\ sei_pos = 0
    /\ message = <<>>
    /\ start_pos = 0
    /\ messages = <<>>
    /\ sei_exc = "none"

SliceHeaderIdle ==
    /\ sh_pc = "idle"
    /\ sh_codec = "none"
    /\ sh_bits = <<>>
    /\ sh_pos = 0
    /\ nal_unit_type = 0
    /\ sh_sps = <<>>
    /\ sh_pps = <<>>
    /\ slice_header = <<>>
    /\ pred_weight_table = <<>>
    /\ sh_exc = "none"

RpsIdle ==
    /\ rpc = "idle"
    /\ rps_caller = "none"
    /\ rps_bits = <<>>
    /\ rps_pos = 0
    /\ st_rps_idx = 0
    /\ num_short_term_ref_pic_sets = 0
    /\ short_term_ref_pic_set = <<>>
    /\ rexc = "none"

EpbIdle ==
    /\ epc = "idle"
    /\ epb_data = <<>>
    /\ epb_output = <<>>
    /\ epb_output2 = <<>>

NoNal == [exc |-> "unset"]
NoSps == [exc |-> "unset"]

SpsIdle ==
    /\ kpc = "idle"
    /\ sps_unit = <<>>
    /\ sps_has_start_code = FALSE
    /\ sps_nal = NoNal
    /\ sps_parsed = NoSps

SelectIdle ==
    /\ spc = "idle"
    /\ file = <<>>
    /\ route = "none"
    /\ container = "none"
    /\ sexc = "none"

HeifIdle ==
    /\ hpc = "idle"
    /\ boxes = <<>>
    /\ box_index = 0
    /\ prop_index = 0
    /\ heif_codec_type = "None"
    /\ heif_sps = 0
    /\ heif_call = "none"

DispatchIdle ==
    /\ dpc = "idle"
    /\ codec = "none"
    /\ oob = FALSE
    /\ nals = <<>>
    /\ nal_index = 0
    /\ parsed_sps = <<>>
    /\ parsed_pps = <<>>
    /\ parsed_data = <<>>
    /\ parsed_slice_segments = <<>>
    /\ dexc = "none"

NoData == [is_none |-> TRUE, bytes |-> <<>>]

ParseIdle ==
    /\ ppc = "idle"
    /\ source = "none"
    /\ codec_type = "none"
    /\ demux_result = "none"
    /\ video_stream_data = NoData
    /\ nal_start_codes = <<>>
    /\ nal_units = <<>>
    /\ count = 0
    /\ video_streams = <<>>
    /\ pexc = "none"

Files == 1..Len(all_parsed_data)

(* video_file.py 30-56: the 'container' field of a record VideoFile.parse
   returns: the atom tree of an MP4 file with a moov box ("moov"), the atom
   tree of a HEIF file, which has meta and no moov ("meta"), or, for a raw
   elementary stream, the string 'h264' or 'h265' *)
Containers == {"moov", "meta", "h264", "h265"}

(* apple.py 10, 267, 278: video['container']['moov'], by the kind of the
   container field: indexing a str with a str is a TypeError, a dict without
   the key a KeyError *)
MoovLookup(c) ==
    IF c \in {"h264", "h265"} THEN "TypeError"
    ELSE IF c = "meta" THEN "KeyError"
    ELSE "none"

Raise(e) ==
    /\ pc' = "raised"
    /\ exc' = e

Emit(v) == trim_out' = [trim_out EXCEPT ![idx] = Append(@, v)]

Init ==
    /\ SeiIdle
    /\ SliceHeaderIdle
    /\ RpsIdle
    /\ all_parsed_data \in
           UNION {[1..n -> {[file_path |-> i, container |-> c] :
                             i \in 1..n, c \in Containers}] : n \in 1..MaxFiles}
    /\ \A f \in Files : all_parsed_data[f].file_path = f
    /\ tkhd = [f \in Files |-> "unread"]
    /\ pc = "trim"
    /\ idx = 1
    /\ trak = NoTrak
    /\ branch = "none"
    /\ media_time = 0
    /\ stts = <<>>
    /\ moof = <<>>
    /\ stream = NoStream
    /\ codec_name = "unbound"
    /\ start_offset = 0
    /\ unreferenced_frame_range = <<>>
    /\ result = "unbound"
    /\ trim_out = [f \in Files |-> <<>>]
    /\ matrix_out = [f \in Files |-> FALSE]
    /\ crop_out = [f \in Files |-> FALSE]
    /\ exc = "none"
    /\ ParseIdle
    /\ EpbIdle
    /\ DispatchIdle
    /\ HeifIdle
    /\ SelectIdle
    /\ SpsIdle

(* apple.py 8-29: the head of one iteration of the trim loop *)
TrimHead ==
    /\ pc = "trim"
    /\ idx <= Len(all_parsed_data)
    /\ MoovLookup(all_parsed_data[idx].container) = "none"
    /\ \E t \in Traks :
        /\ trak' = t
        /\ IF ~t.edts
           THEN /\ branch' = "no_edts"
                /\ media_time' = media_time
                /\ pc' = "next"
           ELSE IF NoTrimBranch(t)
           THEN /\ branch' = "no_trim"
                /\ media_time' = LastMediaTime(t.elst, 0)
                /\ pc' = "classify"
           ELSE /\ branch' = "trim"
                /\ media_time' = TrimMediaTime(t)
                /\ pc' = "scan_stts"
    /\ UNCHANGED <<all_parsed_data, tkhd, idx, stts, moof, stream, codec_name,
                   start_offset, unreferenced_frame_range, result, trim_out,
                   matrix_out, crop_out, exc>>
    /\ UNCHANGED outside_analyze

(* apple.py 8-10: the record of this iteration has no container['moov'] *)
TrimHeadRaises ==
    /\ pc = "trim"
    /\ idx <= Len(all_parsed_data)
    /\ MoovLookup(all_parsed_data[idx].container) # "none"
    /\ Raise(MoovLookup(all_parsed_data[idx].container))
    /\ UNCHANGED <<all_parsed_data, tkhd, idx, trak, branch, media_time, stts, moof,
                   stream, codec_name, start_offset, unreferenced_frame_range,
                   result, trim_out, matrix_out, crop_out>>
    /\ UNCHANGED outside_analyze

(* apple.py 30-52 *)
Classify ==
    /\ pc = "classify"
    /\ \E s \in Streams :
        /\ stream' = s
        /\ IF ClassifyNoTrim(s).exc # "none"
           THEN /\ Raise(ClassifyNoTrim(s).exc)
                /\ UNCHANGED trim_out
           ELSE /\ pc' = "next"
                /\ trim_out' = [trim_out EXCEPT ![idx] = @ \o ClassifyNoTrim(s).out]
                /\ UNCHANGED exc
    /\ UNCHANGED <<all_parsed_data, tkhd, idx, trak, branch, media_time, stts, moof,
                   codec_name, start_offset, unreferenced_frame_range, result,
                   matrix_out, crop_out>>
    /\ UNCHANGED outside_analyze

(* apple.py 66-87 *)
ScanStts ==
    /\ pc = "scan_stts"
    /\ \E e \in SttsTables :
        /\ stts' = e
        /\ IF Len(e) > 0
           THEN IF media_time > e[1].sample_delta
                THEN /\ branch' = "stts"
                     /\ start_offset' = ScanLoop(ExpandStts(e), 0, 0, media_time)
                     /\ IF start_offset' = 0
                        THEN /\ Raise("Exception: Start offset Error")
                             /\ UNCHANGED unreferenced_frame_range
                        ELSE /\ unreferenced_frame_range' = <<0, start_offset'>>
                             /\ pc' = "demux"
                             /\ UNCHANGED exc
                ELSE /\ branch' = "stts_short"
                     /\ pc' = "next"
                     /\ UNCHANGED <<start_offset, unreferenced_frame_range, exc>>
           ELSE /\ pc' = "scan_moof"
                /\ UNCHANGED <<branch, start_offset, unreferenced_frame_range, exc>>
    /\ UNCHANGED <<all_parsed_data, tkhd, idx, trak, media_time, moof, stream,
                   codec_name, result, trim_out, matrix_out, crop_out>>
    /\ UNCHANGED outside_analyze

(* apple.py 164-184 and 261-262 *)
ScanMoof ==
    /\ pc = "scan_moof"
    /\ \E m \in MoofLists :
        /\ moof' = m
        /\ IF Len(m) > 0
           THEN /\ branch' = "moof"
                /\ start_offset' = IF Len(m[1]) > 0
                                   THEN ScanLoop(m[1], 0, 0, media_time) ELSE 0
                /\ IF start_offset' = -1
                   THEN Emit(V_EDITED_NOFRAMES)
                   ELSE UNCHANGED trim_out
                /\ unreferenced_frame_range' = <<0, start_offset'>>
                /\ pc' = "demux"
           ELSE /\ branch' = "no_samples"
                /\ Emit(V_EDITED_NOFRAMES)
                /\ pc' = "next"
                /\ UNCHANGED <<start_offset, unreferenced_frame_range>>
    /\ UNCHANGED <<all_parsed_data, tkhd, idx, trak, media_time, stts, stream,
                   codec_name, result, matrix_out, crop_out, exc>>
    /\ UNCHANGED outside_analyze

(* apple.py 89-140 and 186-237: codec name, demux call, the verdict *)
Demux ==
    /\ pc = "demux"
    /\ \E c \in {"H.264", "H.265", "none"}, o1 \in RunOutcomes, o2 \in RunOutcomes :
        IF c = "none"
        THEN /\ Raise("IndexError")
             /\ UNCHANGED <<codec_name, result, trim_out>>
        ELSE /\ codec_name' = (IF c = "H.264" THEN "h264" ELSE "h265")
             /\ IF DemuxCall(o1, o2) \in {"FileNotFoundError", "OSError"}
                THEN /\ Raise(DemuxCall(o1, o2))
                     /\ UNCHANGED <<result, trim_out>>
                ELSE /\ result' = DemuxCall(o1, o2)
                     /\ UNCHANGED exc
                     /\ IF result' # "exit0"
                        THEN /\ pc' = "returned"
                             /\ UNCHANGED trim_out
                        ELSE /\ Emit(V_EXTRACTED)
                             /\ pc' = "extract"
    /\ UNCHANGED <<all_parsed_data, tkhd, idx, trak, branch, media_time, stts, moof,
                   stream, start_offset, unreferenced_frame_range, matrix_out,
                   crop_out>>
    /\ UNCHANGED outside_analyze

(* apple.py 142-162 and 239-259: the extraction call *)
Extract ==
    /\ pc = "extract"
    /\ \E o1 \in RunOutcomes, o2 \in RunOutcomes :
        IF o1 = "FileNotFoundError" /\ o2 \in {"FileNotFoundError", "OSError"}
        THEN /\ Raise(o2)
             /\ UNCHANGED result
        ELSE /\ result' = ExtractCall(o1, o2, result)
             /\ pc' = IF result' # "exit0" THEN "returned" ELSE "next"
             /\ UNCHANGED exc
    /\ UNCHANGED <<all_parsed_data, tkhd, idx, trak, branch, media_time, stts, moof,
                   stream, codec_name, start_offset, unreferenced_frame_range,
                   trim_out, matrix_out, crop_out>>
    /\ UNCHANGED outside_analyze

(* the end of one iteration of the trim loop: the next video *)
TrimNext ==
    /\ pc = "next"
    /\ pc' = "trim"
    /\ idx' = idx + 1
    /\ trak' = NoTrak
    /\ branch' = "none"
    /\ media_time' = 0
    /\ stts' = <<>>
    /\ moof' = <<>>
    /\ stream' = NoStream
    /\ codec_name' = "unbound"
    /\ start_offset' = 0
    /\ unreferenced_frame_range' = <<>>
    /\ result' = "unbound"
    /\ UNCHANGED <<all_parsed_data, tkhd, trim_out, matrix_out, crop_out, exc>>
    /\ UNCHANGED outside_analyze

TrimLoopEnd ==
    /\ pc = "trim"
    /\ idx > Len(all_parsed_data)
    /\ pc' = "orient"
    /\ idx' = 1
    /\ UNCHANGED <<all_parsed_data, tkhd, trak, branch, media_time, stts, moof, stream,
                   codec_name, start_offset, unreferenced_frame_range, result,
                   trim_out, matrix_out, crop_out, exc>>
    /\ UNCHANGED outside_analyze

(* apple.py 264-274 *)
Orient ==
    /\ pc = "orient"
    /\ idx <= Len(all_parsed_data)
    /\ \E present \in BOOLEAN :
        /\ tkhd' = [tkhd EXCEPT ![idx] = IF present THEN "present" ELSE "None"]
        /\ matrix_out' = [matrix_out EXCEPT ![idx] = present]
    /\ idx' = idx + 1
    /\ UNCHANGED <<all_parsed_data, pc, trak, branch, media_time, stts, moof,
                   stream, codec_name, start_offset, unreferenced_frame_range,
                   result, trim_out, crop_out, exc>>
    /\ UNCHANGED outside_analyze

OrientLoopEnd ==
    /\ pc = "orient"
    /\ idx > Len(all_parsed_data)
    /\ pc' = "crop"
    /\ idx' = 1
    /\ UNCHANGED <<all_parsed_data, tkhd, trak, branch, media_time, stts, moof, stream,
                   codec_name, start_offset, unreferenced_frame_range, result,
                   trim_out, matrix_out, crop_out, exc>>
    /\ UNCHANGED outside_analyze

(* apple.py 276-307 *)
Crop ==
    /\ pc = "crop"
    /\ idx <= Len(all_parsed_data)
    /\ crop_out' = [crop_out EXCEPT ![idx] = (tkhd[idx] = "present")]
    /\ idx' = idx + 1
    /\ UNCHANGED <<all_parsed_data, tkhd, pc, trak, branch, media_time, stts, moof,
                   stream, codec_name, start_offset, unreferenced_frame_range,
                   result, trim_out, matrix_out, exc>>
    /\ UNCHANGED outside_analyze

CropLoopEnd ==
    /\ pc = "crop"
    /\ idx > Len(all_parsed_data)
    /\ pc' = "done"
    /\ UNCHANGED <<all_parsed_data, tkhd, idx, trak, branch, media_time, stts, moof,
                   stream, codec_name, start_offset, unreferenced_frame_range,
                   result, trim_out, matrix_out, crop_out, exc>>
    /\ UNCHANGED outside_analyze

Next ==
    \/ TrimHead
    \/ TrimHeadRaises
    \/ Classify
    \/ ScanStts
    \/ ScanMoof
    \/ Demux
    \/ Extract
    \/ TrimNext
    \/ TrimLoopEnd
    \/ Orient
    \/ OrientLoopEnd
    \/ Crop
    \/ CropLoopEnd

Spec == Init /\ [][Next]_vars

-----------------------------------------------------------------------------
(* The parse pipeline: byte strings and the functions over them.  A byte   *)
(* string is a sequence of integers; Python's 0-based half-open slices are *)
(* written with PySlice.                                                   *)

MaxStreamLen == 9

Bytes == {0, 1, 6}        \* 0x06 is an H.264 SEI header byte

ByteStrings == SeqsUpTo(Bytes, MaxStreamLen)

Min(a, b) == IF a < b THEN a ELSE b

PySlice(data, a, b) == SubSeq(data, Min(a, Len(data)) + 1, Min(b, Len(data)))

PyFrom(data, a) == PySlice(data, a, Len(data))

(* re.finditer(b'\x00\x00\x01|\x00\x00\x00\x01', data): leftmost,
   non-overlapping matches, the first alternative tried first *)
RECURSIVE FindStartCodes(_, _)
FindStartCodes(data, i) ==
    IF i >= Len(data) THEN <<>>
    ELSE IF PySlice(data, i, i + 3) = <<0, 0, 1>>
         THEN <<(<<i, i + 3>>)>> \o FindStartCodes(data, i + 3)
    ELSE IF PySlice(data, i, i + 4) = <<0, 0, 0, 1>>
         THEN <<(<<i, i + 4>>)>> \o FindStartCodes(data, i + 4)
    ELSE FindStartCodes(data, i + 1)

(* the slice of the stream the framing loop cuts for start code i (1-based) *)
NalUnitBytes(data, codes, i) ==
    IF i + 1 <= Len(codes)
    THEN PySlice(data, codes[i][1], codes[i + 1][1])
    ELSE PyFrom(data, codes[i][1])

(* two variants of the function below, for comparison: one whose test
   `i < len(data) - 3` leaves a trailing 00 00 03 alone, and one that drops
   a 03 after a single zero byte *)
RECURSIVE remove_epb_KeepsTail(_, _)
remove_epb_KeepsTail(data, i) ==
    IF i >= Len(data) THEN <<>>
    ELSE IF i < Len(data) - 3 /\ data[i + 1] = 0 /\ data[i + 2] = 0 /\ data[i + 3] = 3
         THEN <<0, 0>> \o remove_epb_KeepsTail(data, i + 3)
    ELSE <<data[i + 1]>> \o remove_epb_KeepsTail(data, i + 1)

RECURSIVE remove_epb_SingleZero(_, _)
remove_epb_SingleZero(data, i) ==
    IF i >= Len(data) THEN <<>>
    ELSE IF i < Len(data) - 1 /\ data[i + 1] = 0 /\ data[i + 2] = 3
         THEN <<0>> \o remove_epb_SingleZero(data, i + 2)
    ELSE <<data[i + 1]>> \o remove_epb_SingleZero(data, i + 1)

(* h264_parser.py 167-179 and, with the same text, hevc_parser.py 68-80 *)
RECURSIVE remove_emulation_prevention_bytes(_, _)
remove_emulation_prevention_bytes(data, i) ==
    IF i >= Len(data) THEN <<>>
    ELSE IF i < Len(data) - 2 /\ data[i + 1] = 0 /\ data[i + 2] = 0 /\ data[i + 3] = 3
         THEN <<0, 0>> \o remove_emulation_prevention_bytes(data, i + 3)
    ELSE <<data[i + 1]>> \o remove_emulation_prevention_bytes(data, i + 1)

StartCodeLen(nal_unit) == IF PySlice(nal_unit, 0, 3) = <<0, 0, 1>> THEN 3 ELSE 4

(* h264_parser.parse_nal_unit; nal_data[0] of an empty body is an IndexError *)
H264NalUnit(nal_unit) ==
    LET nal_data == PyFrom(nal_unit, StartCodeLen(nal_unit)) IN
    IF nal_data = <<>> THEN [exc |-> "IndexError"]
    ELSE [exc |-> "none",
          forbidden_zero_bit |-> (nal_data[1] \div 128) % 2,
          nal_ref_idc |-> (nal_data[1] \div 32) % 4,
          nal_type |-> nal_data[1] % 32,
          data |-> nal_unit,
          raw_data |-> remove_emulation_prevention_bytes(PyFrom(nal_data, 1), 0),
          parsed_data |-> [kind |-> "unset"]]

(* hevc_parser.parse_nal_unit, called only on units longer than 8 bytes *)
HevcNalUnit(nal_unit, offset) ==
    LET nal_data == PyFrom(nal_unit, StartCodeLen(nal_unit))
        nal_header == nal_data[1] * 256 + nal_data[2]
    IN [forbidden_zero_bit |-> (nal_header \div 32768) % 2,
        nal_type |-> (nal_header \div 512) % 64,
        nuh_layer_id |-> (nal_header \div 8) % 64,
        nuh_temporal_id_plus1 |-> nal_header % 8,
        data |-> nal_unit,
        raw_data |-> remove_emulation_prevention_bytes(PyFrom(nal_data, 2), 0),
        nal_start_offset |-> offset,
        nal_length |-> Len(nal_unit)]

(* h264_parser.parse_sei: the ff-extended byte sums, then the payload *)
RECURSIVE ReadFF(_, _, _)
ReadFF(data, pos, acc) ==
    IF pos + 1 > Len(data) THEN [ok |-> FALSE, v |-> acc, pos |-> pos]
    ELSE IF data[pos + 1] # 255 THEN [ok |-> TRUE, v |-> acc + data[pos + 1], pos |-> pos + 1]
    ELSE ReadFF(data, pos + 1, acc + 255)

RECURSIVE parse_sei(_, _, _)
parse_sei(data, pos, sei_messages) ==
    IF pos >= Len(data) THEN [exc |-> "none", v |-> sei_messages]
    ELSE LET ty == ReadFF(data, pos, 0) IN
         IF ~ty.ok THEN [exc |-> "none", v |-> sei_messages]
         ELSE LET sz == ReadFF(data, ty.pos, 0) IN
              IF ~sz.ok THEN [exc |-> "none", v |-> sei_messages]
              ELSE IF sz.pos + sz.v > Len(data)
                   THEN [exc |-> "ValueError", v |-> sei_messages]
              ELSE parse_sei(data, sz.pos + sz.v,
                             Append(sei_messages,
                                    [payload_type |-> ty.v, payload_size |-> sz.v,
                                     payload_data |-> PySlice(data, sz.pos, sz.pos + sz.v)]))

(* what the dispatch loops store in nal['parsed_data'].  The header bytes
   of Bytes reach the SEI branch, the slice branch (no parameter set has been
   seen, so None) and the final else; the parameter-set, AUD, EOS and filler
   parsers are not entered and are left abstract *)
H264ParsedData(nal) ==
    IF PySlice(nal.raw_data, 0, 4) = <<0, 0, 0, 0>>
    THEN [exc |-> "none", kind |-> "raw", v |-> nal.raw_data]
    ELSE IF nal.nal_type = 6
    THEN [exc |-> parse_sei(nal.raw_data, 0, <<>>).exc, kind |-> "sei",
          v |-> parse_sei(nal.raw_data, 0, <<>>).v]
    ELSE IF nal.nal_type \in {1, 5}
    THEN [exc |-> "none", kind |-> "None", v |-> <<>>]
    ELSE IF nal.nal_type \in {7, 8, 9, 10, 11, 12, 13, 19}
    THEN [exc |-> "none", kind |-> "parsed", v |-> <<>>]
    ELSE [exc |-> "none", kind |-> "raw", v |-> nal.raw_data]

HevcParsedData(nal) ==
    IF nal.nal_type \in {32, 33, 34, 39, 40}
    THEN [kind |-> "parsed", v |-> <<>>]
    ELSE IF nal.nal_type \in 0..31
    THEN [kind |-> "None", v |-> <<>>]
    ELSE [kind |-> "raw", v |-> nal.raw_data]

(* h264_parser.py 188-198: the framing loop, up to the first exception *)
RECURSIVE H264Frame(_, _, _)
H264Frame(data, codes, i) ==
    IF i > Len(codes) THEN [exc |-> "none", units |-> <<>>]
    ELSE LET u == H264NalUnit(NalUnitBytes(data, codes, i)) IN
         IF u.exc # "none" THEN [exc |-> u.exc, units |-> <<>>]
         ELSE LET rest == H264Frame(data, codes, i + 1) IN
              [exc |-> rest.exc, units |-> <<u>> \o rest.units]

(* hevc_parser.py 144-197: the loop over the start codes *)
RECURSIVE HevcFrame(_, _, _)
HevcFrame(data, codes, i) ==
    IF i > Len(codes) THEN <<>>
    ELSE LET nal_unit == NalUnitBytes(data, codes, i) IN
         (IF Len(nal_unit) <= 8 THEN <<>>
          ELSE LET n == HevcNalUnit(nal_unit, codes[i][1]) IN
               <<[n EXCEPT !.parsed_data = HevcParsedData(n)]>>)
         \o HevcFrame(data, codes, i + 1)

-----------------------------------------------------------------------------
(* VideoFile.parse_video_codec for one track: the state machine *)

CodecTypes == {"avc1", "hvc1", "hev1", "avc3"}

AnalyzeIdle ==
    /\ all_parsed_data = <<>>
    /\ pc = "idle"
    /\ idx = 1
    /\ trak = NoTrak
    /\ branch = "none"
    /\ media_time = 0
    /\ stts = <<>>
    /\ moof = <<>>
    /\ stream = NoStream
    /\ codec_name = "unbound"
    /\ start_offset = 0
    /\ unreferenced_frame_range = <<>>
    /\ result = "unbound"
    /\ tkhd = <<>>
    /\ trim_out = <<>>
    /\ matrix_out = <<>>
    /\ crop_out = <<>>
    /\ exc = "none"

ParseInit ==
    /\ SeiIdle
    /\ SliceHeaderIdle
    /\ RpsIdle
    /\ AnalyzeIdle
    /\ EpbIdle
    /\ DispatchIdle
    /\ HeifIdle
    /\ SelectIdle
    /\ SpsIdle
    /\ ppc = "start"
    /\ \/ source = "mp4" /\ codec_type \in CodecTypes
       \/ source = "raw" /\ codec_type \in {"avc1", "hvc1"}
    /\ demux_result = "none"
    /\ video_stream_data = NoData
    /\ nal_start_codes = <<>>
    /\ nal_units = <<>>
    /\ count = 0
    /\ video_streams = <<>>
    /\ pexc = "none"

PRaise(e) ==
    /\ ppc' = "raised"
    /\ pexc' = e

(* video_file.py 39-47: a raw .h264/.h265 file is read whole *)
ReadRaw ==
    /\ ppc = "start"
    /\ source = "raw"
    /\ \E data \in ByteStrings :
        video_stream_data' = [is_none |-> FALSE, bytes |-> data]
    /\ ppc' = "parse"
    /\ UNCHANGED <<source, codec_type, demux_result, nal_start_codes, nal_units,
                   count, video_streams, pexc>>
    /\ UNCHANGED outside_parse

(* video_file.py 173-184: a codec type with no branch is passed over *)
SkipCodec ==
    /\ ppc = "start"
    /\ source = "mp4"
    /\ codec_type \notin {"avc1", "hvc1", "hev1"}
    /\ ppc' = "returned"
    /\ UNCHANGED <<source, codec_type, demux_result, video_stream_data,
                   nal_start_codes, nal_units, count, video_streams, pexc>>
    /\ UNCHANGED outside_parse

(* video_file.py 140-171: demux_video.  An exception of subprocess.run is
   caught and printed, and `result` is then read without having been bound;
   a non-zero exit returns None *)
demux_video ==
    /\ ppc = "start"
    /\ source = "mp4"
    /\ codec_type \in {"avc1", "hvc1", "hev1"}
    /\ \E o \in {"exit0", "nonzero", "exception"} :
        /\ demux_result' = o
        /\ IF o = "exception"
           THEN /\ PRaise("UnboundLocalError")
                /\ UNCHANGED video_stream_data
           ELSE IF o = "nonzero"
           THEN /\ video_stream_data' = NoData
                /\ ppc' = "parse"
                /\ UNCHANGED pexc
           ELSE /\ \E data \in ByteStrings :
                    video_stream_data' = [is_none |-> FALSE, bytes |-> data]
                /\ ppc' = "parse"
                /\ UNCHANGED pexc
    /\ UNCHANGED <<source, codec_type, nal_start_codes, nal_units, count,
                   video_streams>>
    /\ UNCHANGED outside_parse

(* h264_parser.py 181-198: start codes and the framing loop *)
FrameH264 ==
    /\ ppc = "parse"
    /\ codec_type = "avc1"
    /\ IF video_stream_data.is_none
       THEN /\ PRaise("TypeError")
            /\ UNCHANGED <<nal_start_codes, nal_units>>
       ELSE /\ nal_start_codes' = FindStartCodes(video_stream_data.bytes, 0)
            /\ LET f == H264Frame(video_stream_data.bytes, nal_start_codes', 1) IN
               IF f.exc # "none"
               THEN /\ PRaise(f.exc)
                    /\ UNCHANGED nal_units
               ELSE /\ nal_units' = f.units
                    /\ ppc' = "dispatch"
                    /\ UNCHANGED pexc
    /\ UNCHANGED <<source, codec_type, demux_result, video_stream_data, count,
                   video_streams>>
    /\ UNCHANGED outside_parse

(* h264_parser.py 211-271: one iteration of the dispatch loop *)
DispatchH264 ==
    /\ ppc = "dispatch"
    /\ count < Len(nal_units)
    /\ count' = count + 1
    /\ LET d == H264ParsedData(nal_units[count']) IN
       IF d.exc # "none"
       THEN /\ PRaise(d.exc)
            /\ UNCHANGED nal_units
       ELSE /\ nal_units' = [nal_units EXCEPT ![count'].parsed_data =
                                [kind |-> d.kind, v |-> d.v]]
            /\ UNCHANGED <<ppc, pexc>>
    /\ UNCHANGED <<source, codec_type, demux_result, video_stream_data,
                   nal_start_codes, video_streams>>
    /\ UNCHANGED outside_parse

(* h264_parser.py 273-284 and video_file.py 313-318 *)
handle_avc1 ==
    /\ ppc = "dispatch"
    /\ count = Len(nal_units)
    /\ video_streams' = Append(video_streams,
                               [codec |-> "H.264", nal_units |-> nal_units])
    /\ ppc' = "returned"
    /\ UNCHANGED <<source, codec_type, demux_result, video_stream_data,
                   nal_start_codes, nal_units, count, pexc>>
    /\ UNCHANGED outside_parse

(* hevc_parser.py 128-209 and video_file.py 321-327 *)
handle_hevc ==
    /\ ppc = "parse"
    /\ codec_type \in {"hvc1", "hev1"}
    /\ IF video_stream_data.is_none
       THEN /\ PRaise("TypeError")
            /\ UNCHANGED <<nal_start_codes, nal_units, video_streams>>
       ELSE /\ nal_start_codes' = FindStartCodes(video_stream_data.bytes, 0)
            /\ nal_units' = HevcFrame(video_stream_data.bytes, nal_start_codes', 1)
            /\ video_streams' = Append(video_streams,
                                       [codec |-> "H.265", nal_units |-> nal_units'])
            /\ ppc' = "returned"
            /\ UNCHANGED pexc
    /\ UNCHANGED <<source, codec_type, demux_result, video_stream_data, count>>
    /\ UNCHANGED outside_parse

ParseNext ==
    \/ ReadRaw
    \/ SkipCodec
    \/ demux_video
    \/ FrameH264
    \/ DispatchH264
    \/ handle_avc1
    \/ handle_hevc

ParseSpec == ParseInit /\ [][ParseNext]_vars

-----------------------------------------------------------------------------
(* Properties of analyze_apple (checked under Spec) *)

(* T as the specification defines it: the media_time of the last elst entry
   that is not an empty edit (0 when there is none), minus the first ctts
   sample_offset when a ctts box exists *)
NonEmptyEdits(t) == {i \in 1..Len(t.elst) : t.elst[i] # EmptyEdit}

RawMediaTime(t) ==
    IF NonEmptyEdits(t) = {} THEN 0
    ELSE t.elst[CHOOSE i \in NonEmptyEdits(t) : \A j \in NonEmptyEdits(t) : j <= i]

EffectiveT(t) == RawMediaTime(t) - (IF t.ctts THEN t.sample_offset ELSE 0)

Has(seq, v) == \E i \in 1..Len(seq) : seq[i] = v

RECURSIVE PrefixSum(_, _)
PrefixSum(list, n) == IF n = 0 THEN 0 ELSE PrefixSum(list, n - 1) + list[n]

(* the 0-based sample indices at which the sum of the preceding values has
   reached T, and the smallest of them *)
ReachedAt(list, T) == {i \in 0..(Len(list) - 1) : PrefixSum(list, i) >= T}

FirstReached(list, T) ==
    CHOOSE i \in ReachedAt(list, T) : \A j \in ReachedAt(list, T) : i <= j

(* C1, as stated: once the edit list of a video has been read, the no-trim
   branch has been taken exactly when T = 0 *)
C1_Stated ==
    trak.edts => ((branch = "no_trim") <=> (EffectiveT(trak) = 0))

(* C1, as the code has it: the no-trim branch is taken exactly when the raw
   media_time is 0, or a ctts box exists and T = 0; a raw media_time of 0
   with a non-zero first ctts sample_offset is classified by step 1 *)
C1_NoTrimBranch ==
    trak.edts =>
        ((branch = "no_trim") <=>
            (RawMediaTime(trak) = 0 \/ (trak.ctts /\ EffectiveT(trak) = 0)))

C1_Witness ==
    /\ pc = "classify"
    /\ branch = "no_trim"
    /\ trak.ctts
    /\ RawMediaTime(trak) = 0
    /\ trak.sample_offset # 0
    /\ Len(trak.elst) = 2

(* C2: when T exceeds the first stts delta and the prefix sums reach T at
   sample index i, then once the trim step of the video is over the file has
   been reported edited and the unreferenced range is [0, i-1] *)
C2_EditedWithRange ==
    (/\ pc \in {"extract", "returned", "raised"}
     /\ branch = "stts"
     /\ ReachedAt(ExpandStts(stts), media_time) # {})
    => /\ Has(trim_out[idx], V_EXTRACTED)
       /\ unreferenced_frame_range =
              <<0, FirstReached(ExpandStts(stts), media_time) - 1>>

C4_NoRaiseOnZeroOffset ==
    (/\ branch = "stts"
     /\ start_offset = 0)
    => /\ pc # "raised"
       /\ (Has(trim_out[idx], V_EDITED) \/ Has(trim_out[idx], V_EDITED_NOFRAMES))

(* C5: in the no-trim branch of an H.265 stream the verdict is unknown when
   the first slice segment's parsed pic_order_cnt_lsb is 0 and edited when it
   is non-zero *)
C5_HevcVerdict ==
    (/\ pc \in {"next", "raised"}
     /\ branch = "no_trim"
     /\ stream.codec = "H.265"
     /\ stream.slice_segments # <<>>
     /\ "slice_pic_order_cnt_lsb" \in DOMAIN stream.slice_segments[1]
     /\ stream.slice_segments[1].slice_pic_order_cnt_lsb.t = "int")
    => /\ pc = "next"
       /\ trim_out[idx] =
              (IF stream.slice_segments[1].slice_pic_order_cnt_lsb = PyInt(0)
               THEN <<V_UNKNOWN>> ELSE <<V_EDITED>>)

(* C6: in the no-trim branch of an H.264 stream with a first slice: with
   pic_order_cnt_type 0 the verdict is unknown iff the slice's
   pic_order_cnt_lsb is the integer 0 and edited otherwise; with type 2 it is
   unknown iff frame_num is 0 and edited otherwise; with type 1 it is unknown
   when slice_type mod 5 is 2 or 4 *)
C6_H264Verdict ==
    (/\ pc \in {"next", "raised"}
     /\ branch = "no_trim"
     /\ stream.codec = "H.264"
     /\ stream.has_sps
     /\ stream.slice_segments # <<>>)
    => LET h == stream.slice_segments[1] IN
       /\ pc = "next"
       /\ stream.pic_order_cnt_type = 0 =>
              trim_out[idx] =
                  (IF "pic_order_cnt_lsb" \in DOMAIN h /\ h.pic_order_cnt_lsb = PyInt(0)
                   THEN <<V_UNKNOWN>> ELSE <<V_EDITED>>)
       /\ stream.pic_order_cnt_type = 2 =>
              trim_out[idx] =
                  (IF h.frame_num = PyInt(0) THEN <<V_UNKNOWN>> ELSE <<V_EDITED>>)
       /\ (stream.pic_order_cnt_type = 1 /\ (h.slice_type.v % 5) \in {2, 4}) =>
              trim_out[idx] = <<V_UNKNOWN>>

C6_Witness ==
    /\ pc = "next"
    /\ branch = "no_trim"
    /\ stream.codec = "H.264"
    /\ stream.has_sps
    /\ stream.pic_order_cnt_type = 0
    /\ stream.slice_segments # <<>>
    /\ "pic_order_cnt_lsb" \in DOMAIN stream.slice_segments[1]
    /\ stream.slice_segments[1].pic_order_cnt_lsb = PyInt(0)
    /\ trim_out[idx] = <<V_UNKNOWN>>

(* C7: when the run has ended after a demuxer failure (binary absent or
   non-zero exit), every file has been through the trim loop, the tkhd of
   every file has been read, and every file that has one has its orientation
   and crop findings *)
C7_FindingsSurviveDemuxFailure ==
    (/\ pc \in {"done", "returned", "raised"}
     /\ \/ result = "nonzero"
        \/ exc \in {"FileNotFoundError", "OSError"})
    => /\ pc = "done"
       /\ \A f \in Files : /\ tkhd[f] # "unread"
                           /\ matrix_out[f] = (tkhd[f] = "present")
                           /\ crop_out[f] = (tkhd[f] = "present")

-----------------------------------------------------------------------------
(* Properties of the parse pipeline (checked under ParseSpec) *)

(* C8: when the demuxer could not be run or exited non-zero for an MP4 video
   track, no exception leaves parse_video_codec *)
C8_DemuxFailureNonFatal ==
    (/\ source = "mp4"
     /\ demux_result \in {"nonzero", "exception"})
    => ppc # "raised"

(* C9: whatever byte string is the elementary stream, no exception leaves
   parse_h264_nal_units or parse_hevc_nal_units *)
C9_ParserNeverRaises ==
    ~video_stream_data.is_none => ppc # "raised"

(* the 0-based positions of the 00 00 01 patterns of a stream; the start
   code at such a position begins one byte earlier when a zero precedes it,
   its NAL unit runs to the beginning of the next start code or to EOF, and
   its body is what follows the 00 00 01 *)
StartCodePositions(data) ==
    {p \in 0..(Len(data) - 3) : PySlice(data, p, p + 3) = <<0, 0, 1>>}

StartCodeBegin(data, p) == IF p >= 1 /\ data[p] = 0 THEN p - 1 ELSE p

NalUnitEnd(data, p) ==
    LET later == {q \in StartCodePositions(data) : q > p} IN
    IF later = {} THEN Len(data)
    ELSE StartCodeBegin(data, CHOOSE q \in later : \A r \in later : q <= r)

(* C10: when the parse of a stream has returned, every start code followed
   by a non-empty body has one NAL unit in the output list, spanning from the
   start code to the next start code or to EOF *)
C10_NoNalUnitDropped ==
    (/\ ppc = "returned"
     /\ Len(video_streams) = 1)
    => LET data == video_stream_data.bytes IN
       \A p \in StartCodePositions(data) :
           NalUnitEnd(data, p) > p + 3 =>
               \E k \in 1..Len(video_streams[1].nal_units) :
                   video_streams[1].nal_units[k].data =
                       PySlice(data, StartCodeBegin(data, p), NalUnitEnd(data, p))

(* C11: a stream that holds a zero-length NAL unit (a start code followed at
   once by the next start code or by EOF) is framed without an error, and the
   zero-length unit has no record in the output list *)
C11_ZeroLengthSkipped ==
    (/\ ~video_stream_data.is_none
     /\ \E p \in StartCodePositions(video_stream_data.bytes) :
            NalUnitEnd(video_stream_data.bytes, p) = p + 3)
    => /\ ppc # "raised"
       /\ \A k \in 1..Len(nal_units) :
              Len(nal_units[k].data) > StartCodeLen(nal_units[k].data)

(* C18: once parse_video_codec has returned for a video track's stsd entry,
   the file has one video stream record for it: H.264 for avc1 and avc3,
   H.265 for hvc1 and hev1 *)
C18_OneRecordPerEntry ==
    (ppc = "returned" /\ source = "mp4")
        => /\ Len(video_streams) = 1
           /\ video_streams[1].codec =
                  (IF codec_type \in {"avc1", "avc3"} THEN "H.264" ELSE "H.265")

-----------------------------------------------------------------------------
(* remove_emulation_prevention_bytes on its own: one call, then a second    *)
(* call on the result of the first                                          *)

MaxEpbLen == 6

EpbBytes == {0, 1, 3}

EpbInit ==
    /\ SeiIdle
    /\ SliceHeaderIdle
    /\ RpsIdle
    /\ AnalyzeIdle
    /\ ParseIdle
    /\ DispatchIdle
    /\ HeifIdle
    /\ SelectIdle
    /\ SpsIdle
    /\ epc = "start"
    /\ epb_data \in SeqsUpTo(EpbBytes, MaxEpbLen)
    /\ epb_output = <<>>
    /\ epb_output2 = <<>>

StripOnce ==
    /\ epc = "start"
    /\ epb_output' = remove_emulation_prevention_bytes(epb_data, 0)
    /\ epc' = "once"
    /\ UNCHANGED <<epb_data, epb_output2>>
    /\ UNCHANGED outside_epb

StripTwice ==
    /\ epc = "once"
    /\ epb_output2' = remove_emulation_prevention_bytes(epb_output, 0)
    /\ epc' = "twice"
    /\ UNCHANGED <<epb_data, epb_output>>
    /\ UNCHANGED outside_epb

EpbNext ==
    \/ StripOnce
    \/ StripTwice

EpbSpec == EpbInit /\ [][EpbNext]_vars

(* the 1-based positions of the 03 bytes that follow two zero bytes *)
EpbPositions(d) == {k \in 3..Len(d) : d[k - 2] = 0 /\ d[k - 1] = 0 /\ d[k] = 3}

(* C12, as stated: stripping the stripped bytes again changes nothing *)
C12_Stated ==
    epc = "twice" => epb_output2 = epb_output

(* C12, as the code has it: a second pass changes nothing exactly when the
   first pass left no 00 00 03 behind; 00 00 03 03 becomes 00 00 03 and then
   00 00 *)
C12_IdempotentWhenNoneLeft ==
    epc = "twice" =>
        ((epb_output2 = epb_output) <=> (EpbPositions(epb_output) = {}))

C12_Witness ==
    /\ epc = "twice"
    /\ epb_data = <<0, 0, 3, 3>>
    /\ epb_output = <<0, 0, 3>>
    /\ epb_output2 = <<0, 0>>

(* C13: the output is the input without the 03 byte of each 00 00 03 of the
   input, every other byte kept in order; 00 00 03 01 becomes 00 00 01 and
   00 00 03 00 03 00 becomes 00 00 00 03 00 *)
C13_RemovesExactlyEpb ==
    epc \in {"once", "twice"} =>
        /\ Len(epb_output) = Len(epb_data) - Cardinality(EpbPositions(epb_data))
        /\ \A k \in (1..Len(epb_data)) \ EpbPositions(epb_data) :
               epb_output[k - Cardinality({j \in EpbPositions(epb_data) : j < k})]
                   = epb_data[k]
        /\ (epb_data = <<0, 0, 3, 1>> => epb_output = <<0, 0, 1>>)
        /\ (epb_data = <<0, 0, 3, 0, 3, 0>> => epb_output = <<0, 0, 0, 3, 0>>)

C13_Witness ==
    /\ epc = "once"
    /\ epb_data = <<0, 0, 3, 0, 3, 0>>
    /\ epb_output = <<0, 0, 0, 3, 0>>

(***************************************************************************)
(* The NAL dispatch loops: parse_h264_nal_units (h264_parser.py 200-271)   *)
(* and parse_hevc_nal_units (hevc_parser.py 128-199), over framed NAL      *)
(* units.  A NAL unit is kept as what the loops look at: its nal_type      *)
(* class and the ids its body carries.  The body parsers are kept as what  *)
(* they hand back to the loop: a parsed record naming the NAL unit it was  *)
(* read from (from = its position in the stream, 0 for the argument).      *)
(***************************************************************************)
MaxNals == 4
ParamIds == {0, 1}
None == -1

SpsNal(sid) == [kind |-> "sps", sid |-> sid, pid |-> None]
PpsNal(pid, sid) == [kind |-> "pps", sid |-> sid, pid |-> pid]
SliceNal(pid) == [kind |-> "slice", sid |-> None, pid |-> pid]
AuxSliceNal(pid) == [kind |-> "aux", sid |-> None, pid |-> pid]

(* an H.264 SPS NAL unit also carries the pic_order_cnt_type that
   analyze_apple reads from the returned 'sps' *)
SpsPocTypes == {0, 2}
H264SpsNal(sid, poc) ==
    [kind |-> "sps", sid |-> sid, pid |-> None, pic_order_cnt_type |-> poc]

(* nal_type 7/33, 8/34, 1 and 5 / 0..31, and H.264's 19 *)
H264Nals ==
    {H264SpsNal(s, t) : s \in ParamIds, t \in SpsPocTypes}
        \cup {PpsNal(q, s) : q \in ParamIds, s \in ParamIds}
        \cup {SliceNal(q) : q \in ParamIds}
        \cup {AuxSliceNal(q) : q \in ParamIds}

HevcNals ==
    {SpsNal(s) : s \in ParamIds}
        \cup {PpsNal(q, s) : q \in ParamIds, s \in ParamIds}
        \cup {SliceNal(q) : q \in ParamIds}

(* the sps / pps arguments, when given: one set of each, ids 0 *)
OobSps == [sid |-> 0, pid |-> None, from |-> 0]
OobPps == [sid |-> 0, pid |-> 0, from |-> 0]

SpsRecord(nal, at) == [sid |-> nal.sid, pid |-> None, from |-> at]
H264SpsRecord(nal, at) ==
    [sid |-> nal.sid, pid |-> None, from |-> at,
     pic_order_cnt_type |-> nal.pic_order_cnt_type]
PpsRecord(nal, at) == [sid |-> nal.sid, pid |-> nal.pid, from |-> at]

Unparsed == [kind |-> "None", sps_from |-> None, pps_from |-> None]
ParsedSps(rec) == [kind |-> "sps", sps_from |-> rec.from, pps_from |-> None]
ParsedPps(rec) == [kind |-> "pps", sps_from |-> None, pps_from |-> rec.from]
(* parse_slice / parse_slice_segment read the header with the sets they are given *)
ParsedSlice(kind, sps, pps) ==
    [kind |-> kind, sps_from |-> sps.from, pps_from |-> pps.from]

Latest(list) == list[Len(list)]

DispatchStreams ==
    {[codec |-> "H.264", oob |-> FALSE, nals |-> n] :
        n \in SeqsUpTo(H264Nals, MaxNals) \ {<<>>}}
        \cup {[codec |-> "H.265", oob |-> o, nals |-> n] :
                o \in BOOLEAN, n \in SeqsUpTo(HevcNals, MaxNals) \ {<<>>}}

DispatchInit ==
    /\ SeiIdle
    /\ SliceHeaderIdle
    /\ RpsIdle
    /\ AnalyzeIdle
    /\ ParseIdle
    /\ EpbIdle
    /\ HeifIdle
    /\ SelectIdle
    /\ SpsIdle
    /\ dpc = "loop"
    /\ \E st \in DispatchStreams :
           /\ codec = st.codec
           /\ oob = st.oob
           /\ nals = st.nals
    /\ nal_index = 0
    /\ parsed_sps = <<>>
    /\ parsed_pps = <<>>
    /\ parsed_data = <<>>
    /\ parsed_slice_segments = <<>>
    /\ dexc = "none"

DRaise(e) ==
    /\ dpc' = "raised"
    /\ dexc' = e
    /\ UNCHANGED <<codec, oob, nals, nal_index, parsed_sps, parsed_pps,
                   parsed_data, parsed_slice_segments>>

DStep(sps, pps, data, segments) ==
    /\ nal_index' = nal_index + 1
    /\ parsed_sps' = sps
    /\ parsed_pps' = pps
    /\ parsed_data' = Append(parsed_data, data)
    /\ parsed_slice_segments' = segments
    /\ dpc' = IF nal_index + 1 = Len(nals) THEN "returned" ELSE "loop"
    /\ UNCHANGED <<codec, oob, nals, dexc>>

(* h264_parser.py 224-230 *)
H264Sps ==
    /\ dpc = "loop" /\ codec = "H.264"
    /\ nals[nal_index + 1].kind = "sps"
    /\ LET rec == IF oob THEN OobSps
                  ELSE H264SpsRecord(nals[nal_index + 1], nal_index + 1)
       IN DStep(<<rec>>, parsed_pps, ParsedSps(rec), parsed_slice_segments)
    /\ UNCHANGED outside_dispatch

(* h264_parser.py 231-237; parse_pps reads sps.get(...) at line 600 when the
   PPS body goes on past its first fields *)
H264Pps ==
    /\ dpc = "loop" /\ codec = "H.264"
    /\ nals[nal_index + 1].kind = "pps"
    /\ \E more_rbsp_data \in BOOLEAN :
           IF more_rbsp_data /\ parsed_sps = <<>>
           THEN DRaise("AttributeError")
           ELSE LET rec == IF oob THEN OobPps
                           ELSE PpsRecord(nals[nal_index + 1], nal_index + 1)
                IN DStep(parsed_sps, <<rec>>, ParsedPps(rec),
                         parsed_slice_segments)
    /\ UNCHANGED outside_dispatch

(* h264_parser.py 242-249 *)
H264Slice ==
    /\ dpc = "loop" /\ codec = "H.264"
    /\ nals[nal_index + 1].kind = "slice"
    /\ IF parsed_sps # <<>> /\ parsed_pps # <<>>
       THEN LET seg == ParsedSlice("slice", Latest(parsed_sps), Latest(parsed_pps))
            IN DStep(parsed_sps, parsed_pps, seg,
                     Append(parsed_slice_segments, seg))
       ELSE DStep(parsed_sps, parsed_pps, Unparsed, parsed_slice_segments)
    /\ UNCHANGED outside_dispatch

(* h264_parser.py 266-269: parse_aux_slice is called whatever parsed_sps and
   parsed_pps are, and subscripts both (lines 1765 and 1791) after three
   read_ue_safe calls, which re-raise the reader's ReadError on a short body *)
H264AuxSlice ==
    /\ dpc = "loop" /\ codec = "H.264"
    /\ nals[nal_index + 1].kind = "aux"
    /\ IF parsed_sps # <<>> /\ parsed_pps # <<>>
       THEN DStep(parsed_sps, parsed_pps,
                  ParsedSlice("aux", Latest(parsed_sps), Latest(parsed_pps)),
                  parsed_slice_segments)
       ELSE \E e \in {"ReadError", "TypeError"} : DRaise(e)
    /\ UNCHANGED outside_dispatch

(* hevc_parser.py 170-173; the sps argument only reaches sps_list (135-136) *)
HevcSps ==
    /\ dpc = "loop" /\ codec = "H.265"
    /\ nals[nal_index + 1].kind = "sps"
    /\ LET rec == SpsRecord(nals[nal_index + 1], nal_index + 1)
       IN DStep(Append(parsed_sps, rec), parsed_pps, ParsedSps(rec),
                parsed_slice_segments)
    /\ UNCHANGED outside_dispatch

(* hevc_parser.py 174-177; the pps argument only reaches pps_list (137-138) *)
HevcPps ==
    /\ dpc = "loop" /\ codec = "H.265"
    /\ nals[nal_index + 1].kind = "pps"
    /\ LET rec == PpsRecord(nals[nal_index + 1], nal_index + 1)
       IN DStep(parsed_sps, Append(parsed_pps, rec), ParsedPps(rec),
                parsed_slice_segments)
    /\ UNCHANGED outside_dispatch

(* hevc_parser.py 188-197 *)
HevcSlice ==
    /\ dpc = "loop" /\ codec = "H.265"
    /\ nals[nal_index + 1].kind = "slice"
    /\ IF parsed_sps # <<>> /\ parsed_pps # <<>>
       THEN LET seg == ParsedSlice("slice", Latest(parsed_sps), Latest(parsed_pps))
            IN DStep(parsed_sps, parsed_pps, seg,
                     Append(parsed_slice_segments, seg))
       ELSE DStep(parsed_sps, parsed_pps, Unparsed, parsed_slice_segments)
    /\ UNCHANGED outside_dispatch

DispatchNext ==
    \/ H264Sps
    \/ H264Pps
    \/ H264Slice
    \/ H264AuxSlice
    \/ HevcSps
    \/ HevcPps
    \/ HevcSlice

DispatchSpec == DispatchInit /\ [][DispatchNext]_vars

(* the parameter sets a slice's ids name: the last PPS before position k
   whose id is the slice's, and the last SPS before k whose id is that PPS's *)
LastBefore(k, kind, field, id) ==
    LET hits == {j \in 1..(k - 1) : nals[j].kind = kind /\ nals[j][field] = id}
    IN IF hits = {} THEN None
       ELSE CHOOSE j \in hits : \A h \in hits : h <= j

ReferencedPps(k) == LastBefore(k, "pps", "pid", nals[k].pid)

ReferencedSps(k) ==
    IF ReferencedPps(k) = None THEN None
    ELSE LastBefore(k, "sps", "sid", nals[ReferencedPps(k)].sid)

InBand(kind) == \E j \in 1..Len(nals) : nals[j].kind = kind

(* C14: a slice, once the loop has handled it and parsed its header, was
   parsed with the PPS its pic_parameter_set_id names and the SPS that PPS
   names, each the most recently seen with that id *)
C14_SliceUsesReferencedSets ==
    \A k \in 1..Len(parsed_data) :
        (nals[k].kind = "slice" /\ parsed_data[k].kind = "slice")
            => /\ parsed_data[k].pps_from = ReferencedPps(k)
               /\ parsed_data[k].sps_from = ReferencedSps(k)

(* C15: when the stream carries no SPS and no PPS of its own and the
   out-of-band sets were given, its slices are parsed, with those sets *)
C15_OutOfBandSetsUsed ==
    (dpc = "returned" /\ oob /\ ~InBand("sps") /\ ~InBand("pps"))
        => \A k \in 1..Len(nals) :
               nals[k].kind \in {"slice", "aux"}
                   => /\ parsed_data[k].kind = nals[k].kind
                      /\ parsed_data[k].sps_from = 0
                      /\ parsed_data[k].pps_from = 0

(* C16: a slice (coded slice or auxiliary slice) met while an SPS or a PPS
   is still missing raises nothing and is left with parsed_data None, out of
   slice_segments, and the loop goes on to the NAL units after it *)
C16_EarlySliceIsSkipped ==
    /\ dexc \notin {"ReadError", "TypeError"}
    /\ \A k \in 1..Len(parsed_data) :
           (/\ nals[k].kind \in {"slice", "aux"}
            /\ \/ \A j \in 1..(k - 1) : nals[j].kind # "sps"
               \/ \A j \in 1..(k - 1) : nals[j].kind # "pps")
               => parsed_data[k] = Unparsed

(* h264_parser.py 273-284 and apple.py 30-46: the 'sps' of the returned
   record is the last SPS the loop parsed, and its pic_order_cnt_type is the
   one analyze_apple dispatches on *)
ReturnedSps == Latest(parsed_sps)

(* the SPS NAL unit the first entry of slice_segments was parsed with *)
FirstSliceSps == nals[parsed_slice_segments[1].sps_from]

(* C29: when parse_h264_nal_units has returned with a parsed slice, the
   pic_order_cnt_type of the returned 'sps', which the analyzer classifies
   the first slice by, is that of the SPS the first slice was parsed with *)
C29_AnalyzerUsesSliceSps ==
    (dpc = "returned" /\ codec = "H.264" /\ parsed_slice_segments # <<>>)
        => ReturnedSps.pic_order_cnt_type = FirstSliceSps.pic_order_cnt_type

(***************************************************************************)
(* The HEIF branch of VideoFile.handle_mp4_codecs (video_file.py 105-136): *)
(* the two nested loops over meta['iprp']['boxes'] and each box's          *)
(* properties, and the call of parse_video_codec that follows them.  An    *)
(* hvcC property is kept as the parameter sets it carries (sps = 1, 2, ... *)
(* tells one hvcC from another; 0 is None).                                *)
(***************************************************************************)
MaxBoxes == 2
MaxProps == 2
HvcCTags == {1, 2}

HvcC(t) == [type |-> "hvcC", sps |-> t]
OtherProp == [type |-> "ispe", sps |-> 0]
Properties == {HvcC(t) : t \in HvcCTags} \cup {OtherProp}

(* a box whose 'properties' is a list, or a box without such a list *)
IprpBoxes ==
    {[is_list |-> TRUE, properties |-> ps] : ps \in SeqsUpTo(Properties, MaxProps)}
        \cup {[is_list |-> FALSE, properties |-> <<>>]}

HeifInit ==
    /\ SeiIdle
    /\ SliceHeaderIdle
    /\ RpsIdle
    /\ AnalyzeIdle
    /\ ParseIdle
    /\ EpbIdle
    /\ DispatchIdle
    /\ SelectIdle
    /\ SpsIdle
    /\ hpc = "boxes"
    /\ boxes \in SeqsUpTo(IprpBoxes, MaxBoxes)
    /\ box_index = 1
    /\ prop_index = 1
    /\ heif_codec_type = "None"
    /\ heif_sps = 0
    /\ heif_call = "none"

InBox == hpc = "boxes" /\ box_index <= Len(boxes)

InProperties ==
    /\ InBox
    /\ boxes[box_index].is_list
    /\ prop_index <= Len(boxes[box_index].properties)

(* video_file.py 115: a box without a property list is passed over *)
SkipBox ==
    /\ InBox
    /\ ~boxes[box_index].is_list
    /\ box_index' = box_index + 1
    /\ prop_index' = 1
    /\ UNCHANGED <<hpc, boxes, heif_codec_type, heif_sps, heif_call>>
    /\ UNCHANGED outside_heif

(* video_file.py 117-122: the break ends the loop over this box's
   properties; the loop over the boxes goes on *)
TakeHvcC ==
    /\ InProperties
    /\ boxes[box_index].properties[prop_index].type = "hvcC"
    /\ heif_codec_type' = "hvc1"
    /\ heif_sps' = boxes[box_index].properties[prop_index].sps
    /\ box_index' = box_index + 1
    /\ prop_index' = 1
    /\ UNCHANGED <<hpc, boxes, heif_call>>
    /\ UNCHANGED outside_heif

(* video_file.py 116-117: a property of another type *)
PassProperty ==
    /\ InProperties
    /\ boxes[box_index].properties[prop_index].type # "hvcC"
    /\ prop_index' = prop_index + 1
    /\ UNCHANGED <<hpc, boxes, box_index, heif_codec_type, heif_sps, heif_call>>
    /\ UNCHANGED outside_heif

(* video_file.py 116: the properties of this box are exhausted *)
PropertiesEnd ==
    /\ InBox
    /\ boxes[box_index].is_list
    /\ prop_index > Len(boxes[box_index].properties)
    /\ box_index' = box_index + 1
    /\ prop_index' = 1
    /\ UNCHANGED <<hpc, boxes, heif_codec_type, heif_sps, heif_call>>
    /\ UNCHANGED outside_heif

(* video_file.py 136 and 173-183: parse_video_codec has a branch for hvc1
   and none for a codec_type of None *)
HeifParse ==
    /\ hpc = "boxes"
    /\ box_index > Len(boxes)
    /\ hpc' = "returned"
    /\ heif_call' = IF heif_codec_type = "hvc1" THEN "handle_hevc" ELSE "nothing"
    /\ UNCHANGED <<boxes, box_index, prop_index, heif_codec_type, heif_sps>>
    /\ UNCHANGED outside_heif

HeifNext ==
    \/ SkipBox
    \/ TakeHvcC
    \/ PassProperty
    \/ PropertiesEnd
    \/ HeifParse

HeifSpec == HeifInit /\ [][HeifNext]_vars

(* the hvcC properties of a box sequence, in on-disk order *)
RECURSIVE HvcCsOfProps(_)
HvcCsOfProps(ps) ==
    IF ps = <<>> THEN <<>>
    ELSE (IF Head(ps).type = "hvcC" THEN <<Head(ps).sps>> ELSE <<>>)
             \o HvcCsOfProps(Tail(ps))

RECURSIVE HvcCsOfBoxes(_)
HvcCsOfBoxes(bs) ==
    IF bs = <<>> THEN <<>>
    ELSE HvcCsOfProps(Head(bs).properties) \o HvcCsOfBoxes(Tail(bs))

(* C17: the parameter sets handed to the HEVC parser are those of the first
   hvcC property in on-disk order, whatever hvcC properties follow it *)
C17_FirstHvcCKept ==
    (hpc = "returned" /\ HvcCsOfBoxes(boxes) # <<>>)
        => /\ heif_call = "handle_hevc"
           /\ heif_sps = Head(HvcCsOfBoxes(boxes))

(***************************************************************************)
(* Parse mode for one file met by os.walk: main's selection by the name's  *)
(* ending (main.py 36-41), then VideoFile.parse / ImageFile.parse up to    *)
(* their choice of a parser (video_file.py 18-25, image_file.py 18-34).    *)
(* A file name is a sequence of pieces: a dot, a stem piece, or the        *)
(* letters of one extension; no piece is the tail of another, so a string  *)
(* ends with a suffix exactly when its pieces end with the suffix's.       *)
(***************************************************************************)
MaxNameLen == 3

Dot == "."
VideoEndings == {"mp4", "mkv", "avi", "mov", "heic", "h264", "h265", "m4a",
                 "aac", "3gp"}
ImageEndings == {"jpg", "jpeg", "dng", "tiff", "png", "gif"}
NamePieces ==
    {Dot, "a", "txt", "MP4", "webp"} \cup VideoEndings \cup ImageEndings

FileNames == SeqsUpTo(NamePieces, MaxNameLen) \ {<<>>}

(* str.lower, piece by piece *)
LowerPiece(x) == IF x = "MP4" THEN "mp4" ELSE x
Lower(name) == [k \in 1..Len(name) |-> LowerPiece(name[k])]

(* str.endswith for one suffix *)
EndsWith(name, suffix) ==
    /\ Len(name) >= Len(suffix)
    /\ \A k \in 1..Len(suffix) :
           name[Len(name) - Len(suffix) + k] = suffix[k]

(* main.py 38 and 40: the two tuples of endings *)
VideoSuffixes == {<<Dot, e>> : e \in VideoEndings}
ImageSuffixes == {<<Dot, e>> : e \in ImageEndings} \cup {<<"webp">>}

(* os.path.splitext(...)[1]: from the last dot on, unless only dots come
   before it *)
SplitExt(name) ==
    LET dots == {k \in 1..Len(name) : name[k] = Dot}
    IN IF dots = {} THEN <<>>
       ELSE LET last == CHOOSE k \in dots : \A j \in dots : j <= k
            IN IF \A j \in 1..(last - 1) : name[j] = Dot THEN <<>>
               ELSE SubSeq(name, last, Len(name))

SelectInit ==
    /\ SeiIdle
    /\ SliceHeaderIdle
    /\ RpsIdle
    /\ AnalyzeIdle
    /\ ParseIdle
    /\ EpbIdle
    /\ DispatchIdle
    /\ HeifIdle
    /\ SpsIdle
    /\ spc = "walk"
    /\ file \in FileNames
    /\ route = "none"
    /\ container = "none"
    /\ sexc = "none"

(* main.py 37-41 *)
SelectFile ==
    /\ spc = "walk"
    /\ route' = IF \E sfx \in VideoSuffixes : EndsWith(Lower(file), sfx)
                THEN "video_files"
                ELSE IF \E sfx \in ImageSuffixes : EndsWith(Lower(file), sfx)
                THEN "image_files"
                ELSE "unselected"
    /\ spc' = IF route' = "unselected" THEN "returned" ELSE "parse"
    /\ UNCHANGED <<file, container, sexc>>
    /\ UNCHANGED outside_select

(* main.py 44-47 and video_file.py 18-29 *)
determine_container ==
    /\ spc = "parse"
    /\ route = "video_files"
    /\ LET extension == Lower(SplitExt(file))
       IN IF extension \in {<<Dot, e>> : e \in {"mp4", "mov", "heic", "aac", "m4a", "3gp"}}
          THEN container' = "MP4Parser" /\ spc' = "returned" /\ UNCHANGED sexc
          ELSE IF extension \in {<<Dot, "h264">>, <<Dot, "h265">>}
          THEN container' = extension[2] /\ spc' = "returned" /\ UNCHANGED sexc
          ELSE /\ sexc' = "ValueError: Unsupported file format"
               /\ spc' = "raised"
               /\ UNCHANGED container
    /\ UNCHANGED <<file, route>>
    /\ UNCHANGED outside_select

(* main.py 376-379 and image_file.py 18-34 *)
ImageFileParse ==
    /\ spc = "parse"
    /\ route = "image_files"
    /\ LET extension == Lower(SplitExt(file))
       IN IF extension \in {<<Dot, "jpg">>, <<Dot, "jpeg">>}
          THEN container' = "JPEGParser" /\ spc' = "returned" /\ UNCHANGED sexc
          ELSE IF extension = <<Dot, "png">>
          THEN container' = "PNGParser" /\ spc' = "returned" /\ UNCHANGED sexc
          ELSE IF extension = <<Dot, "gif">>
          THEN container' = "GIFParser" /\ spc' = "returned" /\ UNCHANGED sexc
          ELSE IF extension = <<Dot, "dng">>
          THEN container' = "DNGParser" /\ spc' = "returned" /\ UNCHANGED sexc
          ELSE IF extension = <<Dot, "tiff">>
          THEN container' = "TIFFParser" /\ spc' = "returned" /\ UNCHANGED sexc
          ELSE /\ sexc' = "ValueError: Unsupported file format"
               /\ spc' = "raised"
               /\ UNCHANGED container
    /\ UNCHANGED <<file, route>>
    /\ UNCHANGED outside_select

SelectNext ==
    \/ SelectFile
    \/ determine_container
    \/ ImageFileParse

SelectSpec == SelectInit /\ [][SelectNext]_vars

(* C19: a file is put on a list only when its lower-cased name ends in a dot
   followed by one of the listed extensions, and no file put on a list makes
   its parser raise "Unsupported file format" *)
C19_SelectedFilesAccepted ==
    /\ sexc # "ValueError: Unsupported file format"
    /\ route \in {"video_files", "image_files"}
           => \E e \in VideoEndings \cup ImageEndings \cup {"webp"} :
                  EndsWith(Lower(file), <<Dot, e>>)

(***************************************************************************)
(* One NAL unit through parse_nal_unit and parse_sps (h264_parser.py       *)
(* 288-308, 327-434, 437-513), bit by bit.  The BitStream is its bits and  *)
(* its position; a reader threads that, the locals bound so far (f, keyed  *)
(* by the path of the name: <<"profile_idc">>, <<"vui", "time_scale">>)    *)
(* and the exception raised, if any, through the reads in program order.   *)
(***************************************************************************)
PyBool(b) == [t |-> "bool", v |-> b]
PyList(l) == [t |-> "list", v |-> l]

(* truth value of an int, a bool or None *)
Truthy(x) == x.t # "none" /\ x.v # 0
Eq(x, n) == x.t # "none" /\ x.v = n

Put(f, name, val) ==
    [k \in DOMAIN f \cup {name} |-> IF k = name THEN val ELSE f[k]]

NoFields == [k \in {} |-> PyNone]

(* BitStream(data): most significant bit first *)
Bits(data) ==
    [k \in 1..(8 * Len(data)) |->
        (data[((k - 1) \div 8) + 1] \div (2 ^ (7 - ((k - 1) % 8)))) % 2]

(* the n bits after position pos, as an unsigned integer *)
RECURSIVE Uint(_, _, _)
Uint(bits, pos, n) ==
    IF n = 0 THEN 0 ELSE 2 * Uint(bits, pos, n - 1) + bits[pos + n]

(* a variant: the code's leading zeros alone, its suffix bits skipped unread *)
exp_golomb_NoSuffix(bits, pos) ==
    LET ones == {k \in pos..(Len(bits) - 1) : bits[k + 1] = 1}
        first == CHOOSE k \in ones : \A j \in ones : k <= j
        z == first - pos
    IN IF ones = {} \/ first + 1 + z > Len(bits)
       THEN [ok |-> FALSE, val |-> 0, pos |-> pos]
       ELSE [ok |-> TRUE, val |-> (2 ^ z) - 1, pos |-> first + 1 + z]

(* bs.read('ue'): z zeros, a one, z more bits; off the end is a ReadError *)
exp_golomb(bits, pos) ==
    LET ones == {k \in pos..(Len(bits) - 1) : bits[k + 1] = 1}
        first == CHOOSE k \in ones : \A j \in ones : k <= j
        z == first - pos
    IN IF ones = {} \/ first + 1 + z > Len(bits)
       THEN [ok |-> FALSE, val |-> 0, pos |-> pos]
       ELSE [ok |-> TRUE,
             val |-> (2 ^ z) - 1 + Uint(bits, first + 1, z),
             pos |-> first + 1 + z]

(* bs.read('se'): code 1, 2, 3, 4, ... is 1, -1, 2, -2, ... *)
signed_exp_golomb(bits, pos) ==
    LET g == exp_golomb(bits, pos)
        m == (g.val + 1) \div 2
    IN [g EXCEPT !.val = IF g.val % 2 = 0 THEN 0 - m ELSE m]

Bound(s, name, val, pos) == [s EXCEPT !.f = Put(@, name, val), !.pos = pos]
Fail(s, e) == [s EXCEPT !.exc = e]
Val(s, name) == Get(s.f, name, PyNone)

(* h264_parser.py 25-33: the reader's ReadError is raised again *)
read_ue_safe(s, name) ==
    IF s.exc # "none" THEN s
    ELSE IF s.pos < Len(s.bits)
    THEN LET g == exp_golomb(s.bits, s.pos)
         IN IF g.ok THEN Bound(s, name, PyInt(g.val), g.pos)
            ELSE Fail(s, "ReadError")
    ELSE Bound(s, name, PyNone, s.pos)

(* h264_parser.py 35-42: the reader's ReadError gives None *)
read_se_safe(s, name) ==
    IF s.exc # "none" THEN s
    ELSE IF s.pos < Len(s.bits)
    THEN LET g == signed_exp_golomb(s.bits, s.pos)
         IN IF g.ok THEN Bound(s, name, PyInt(g.val), g.pos)
            ELSE Bound(s, name, PyNone, s.pos)
    ELSE Bound(s, name, PyNone, s.pos)

(* h264_parser.py 44-51 *)
read_bool_safe(s, name) ==
    IF s.exc # "none" THEN s
    ELSE IF s.pos < Len(s.bits)
    THEN Bound(s, name, PyBool(s.bits[s.pos + 1]), s.pos + 1)
    ELSE Bound(s, name, PyNone, s.pos)

(* h264_parser.py 53-60 *)
read_uint_safe(s, name, n) ==
    IF s.exc # "none" THEN s
    ELSE IF s.pos + n <= Len(s.bits)
    THEN Bound(s, name, PyInt(Uint(s.bits, s.pos, n)), s.pos + n)
    ELSE Bound(s, name, PyNone, s.pos)

HighProfiles == {100, 110, 122, 244, 44, 83, 86, 118, 128, 134, 135, 138, 139, 144}

(* the local list `list` set to [] *)
NewList(s, list) == Bound(s, list, PyList(<<>>), s.pos)

(* list.append of the value just read *)
AppendItem(s, list) ==
    [s EXCEPT !.f = Put(@, list, PyList(Append(Val(s, list).v, Val(s, <<"item">>))))]

(* h264_parser.py 356-360: the j loop, n rounds left.  scaling_delta is the
   round after its read_se_safe: None + int is a TypeError *)
RECURSIVE scaling_list(_, _, _, _)
RECURSIVE scaling_delta(_, _, _)
scaling_list(s, n, lastScale, nextScale) ==
    IF n = 0 \/ s.exc # "none" THEN s
    ELSE IF nextScale # 0
    THEN scaling_delta(read_se_safe(s, <<"delta_scale">>), n, lastScale)
    ELSE scaling_list(s, n - 1, lastScale, nextScale)

scaling_delta(s, n, lastScale) ==
    IF Val(s, <<"delta_scale">>).t = "none" THEN Fail(s, "TypeError")
    ELSE IF (lastScale + Val(s, <<"delta_scale">>).v + 256) % 256 # 0
    THEN scaling_list(s, n - 1,
                      (lastScale + Val(s, <<"delta_scale">>).v + 256) % 256,
                      (lastScale + Val(s, <<"delta_scale">>).v + 256) % 256)
    ELSE scaling_list(s, n - 1, lastScale, 0)

(* h264_parser.py 352-360 *)
scaling_list_of(s, i) ==
    IF Truthy(Val(s, <<"seq_scaling_list_present_flag">>))
    THEN scaling_list(s, IF i < 6 THEN 16 ELSE 64, 8, 8)
    ELSE s

(* h264_parser.py 350-360: the i loop, from round i of n *)
RECURSIVE scaling_lists(_, _, _)
scaling_lists(s, i, n) ==
    IF i = n \/ s.exc # "none" THEN s
    ELSE scaling_lists(
             scaling_list_of(read_bool_safe(s, <<"seq_scaling_list_present_flag">>), i),
             i + 1, n)

(* h264_parser.py 349-350 *)
seq_scaling_matrix(s) ==
    IF Truthy(Val(s, <<"seq_scaling_matrix_present_flag">>))
    THEN scaling_lists(s, 0, IF Eq(Val(s, <<"chroma_format_idc">>), 3) THEN 12 ELSE 8)
    ELSE s

(* h264_parser.py 343-344 *)
separate_colour_plane_flag(s) ==
    IF Eq(Val(s, <<"chroma_format_idc">>), 3)
    THEN read_bool_safe(s, <<"separate_colour_plane_flag">>)
    ELSE s

(* h264_parser.py 341-360; None is in no list *)
sps_high_profile(s) ==
    LET s1 == read_ue_safe(s, <<"chroma_format_idc">>)
        s2 == separate_colour_plane_flag(s1)
        s3 == read_ue_safe(s2, <<"bit_depth_luma_minus8">>)
        s4 == read_ue_safe(s3, <<"bit_depth_chroma_minus8">>)
        s5 == read_bool_safe(s4, <<"qpprime_y_zero_transform_bypass_flag">>)
        s6 == read_bool_safe(s5, <<"seq_scaling_matrix_present_flag">>)
    IN IF Val(s, <<"profile_idc">>).t # "none" /\ Val(s, <<"profile_idc">>).v \in HighProfiles
       THEN seq_scaling_matrix(s6)
       ELSE s

(* h264_parser.py 372-373: n rounds left *)
RECURSIVE ref_frame_offsets(_, _)
ref_frame_offsets(s, n) ==
    IF n = 0 \/ s.exc # "none" THEN s
    ELSE ref_frame_offsets(
             AppendItem(read_se_safe(s, <<"item">>), <<"offset_for_ref_frame">>),
             n - 1)

(* h264_parser.py 371-373; range(None) is a TypeError *)
offset_for_ref_frame(s) ==
    IF s.exc # "none" THEN s
    ELSE IF Val(s, <<"num_ref_frames_in_pic_order_cnt_cycle">>).t = "none"
    THEN Fail(s, "TypeError")
    ELSE ref_frame_offsets(NewList(s, <<"offset_for_ref_frame">>),
                           Val(s, <<"num_ref_frames_in_pic_order_cnt_cycle">>).v)

(* h264_parser.py 367-373 *)
sps_pic_order_cnt_1(s) ==
    LET s1 == read_bool_safe(s, <<"delta_pic_order_always_zero_flag">>)
        s2 == read_se_safe(s1, <<"offset_for_non_ref_pic">>)
        s3 == read_se_safe(s2, <<"offset_for_top_to_bottom_field">>)
        s4 == read_ue_safe(s3, <<"num_ref_frames_in_pic_order_cnt_cycle">>)
    IN offset_for_ref_frame(s4)

(* h264_parser.py 364-373 *)
sps_pic_order_cnt(s) ==
    IF Eq(Val(s, <<"pic_order_cnt_type">>), 0)
    THEN read_ue_safe(s, <<"log2_max_pic_order_cnt_lsb_minus4">>)
    ELSE IF Eq(Val(s, <<"pic_order_cnt_type">>), 1) THEN sps_pic_order_cnt_1(s)
    ELSE s

(* h264_parser.py 504-507: n rounds left *)
RECURSIVE hrd_cpb_loop(_, _, _)
hrd_cpb_loop(s, hrd, n) ==
    IF n = 0 \/ s.exc # "none" THEN s
    ELSE LET s1 == AppendItem(read_ue_safe(s, <<"item">>),
                              hrd \o <<"bit_rate_value_minus1">>)
             s2 == AppendItem(read_ue_safe(s1, <<"item">>),
                              hrd \o <<"cpb_size_value_minus1">>)
             s3 == AppendItem(read_bool_safe(s2, <<"item">>), hrd \o <<"cbr_flag">>)
         IN hrd_cpb_loop(s3, hrd, n - 1)

(* h264_parser.py 501-507; None + 1 is a TypeError *)
hrd_cpb(s, hrd) ==
    IF s.exc # "none" THEN s
    ELSE IF Val(s, hrd \o <<"cpb_cnt_minus1">>).t = "none" THEN Fail(s, "TypeError")
    ELSE hrd_cpb_loop(s, hrd, Val(s, hrd \o <<"cpb_cnt_minus1">>).v + 1)

(* h264_parser.py 472-473 and 476-477, and 496-513 *)
parse_hrd_parameters(s, present_flag, hrd) ==
    LET s1 == read_ue_safe(s, hrd \o <<"cpb_cnt_minus1">>)
        s2 == read_uint_safe(s1, hrd \o <<"bit_rate_scale">>, 4)
        s3 == read_uint_safe(s2, hrd \o <<"cpb_size_scale">>, 4)
        s4 == NewList(s3, hrd \o <<"bit_rate_value_minus1">>)
        s5 == NewList(s4, hrd \o <<"cpb_size_value_minus1">>)
        s6 == NewList(s5, hrd \o <<"cbr_flag">>)
        s7 == hrd_cpb(s6, hrd)
        s8 == read_uint_safe(s7, hrd \o <<"initial_cpb_removal_delay_length_minus1">>, 5)
        s9 == read_uint_safe(s8, hrd \o <<"cpb_removal_delay_length_minus1">>, 5)
        s10 == read_uint_safe(s9, hrd \o <<"dpb_output_delay_length_minus1">>, 5)
    IN IF Truthy(Val(s, present_flag))
       THEN read_uint_safe(s10, hrd \o <<"time_offset_length">>, 5)
       ELSE s

Vui(name) == <<"vui", name>>

(* h264_parser.py 442-444 *)
vui_extended_sar(s) ==
    IF Eq(Val(s, Vui("aspect_ratio_idc")), 255)
    THEN read_uint_safe(read_uint_safe(s, Vui("sar_width"), 16), Vui("sar_height"), 16)
    ELSE s

(* h264_parser.py 440-444 *)
vui_aspect_ratio(s) ==
    IF Truthy(Val(s, Vui("aspect_ratio_info_present_flag")))
    THEN vui_extended_sar(read_uint_safe(s, Vui("aspect_ratio_idc"), 8))
    ELSE s

(* h264_parser.py 447-448 *)
vui_overscan(s) ==
    IF Truthy(Val(s, Vui("overscan_info_present_flag")))
    THEN read_bool_safe(s, Vui("overscan_appropriate_flag"))
    ELSE s

(* h264_parser.py 455-458 *)
vui_colour_description(s) ==
    IF Truthy(Val(s, Vui("colour_description_present_flag")))
    THEN read_uint_safe(
             read_uint_safe(
                 read_uint_safe(s, Vui("colour_primaries"), 8),
                 Vui("transfer_characteristics"), 8),
             Vui("matrix_coefficients"), 8)
    ELSE s

(* h264_parser.py 451-458 *)
vui_video_signal_type(s) ==
    LET s1 == read_uint_safe(s, Vui("video_format"), 3)
        s2 == read_bool_safe(s1, Vui("video_full_range_flag"))
        s3 == read_bool_safe(s2, Vui("colour_description_present_flag"))
    IN IF Truthy(Val(s, Vui("video_signal_type_present_flag")))
       THEN vui_colour_description(s3)
       ELSE s

(* h264_parser.py 461-463 *)
vui_chroma_loc(s) ==
    IF Truthy(Val(s, Vui("chroma_loc_info_present_flag")))
    THEN read_ue_safe(read_ue_safe(s, Vui("chroma_sample_loc_type_top_field")),
                      Vui("chroma_sample_loc_type_bottom_field"))
    ELSE s

(* h264_parser.py 466-469 *)
vui_timing_info(s) ==
    IF Truthy(Val(s, Vui("timing_info_present_flag")))
    THEN read_bool_safe(
             read_uint_safe(read_uint_safe(s, Vui("num_units_in_tick"), 32),
                            Vui("time_scale"), 32),
             Vui("fixed_frame_rate_flag"))
    ELSE s

(* h264_parser.py 479-480 *)
vui_low_delay_hrd(s) ==
    IF \/ Truthy(Val(s, Vui("nal_hrd_parameters_present_flag")))
       \/ Truthy(Val(s, Vui("vcl_hrd_parameters_present_flag")))
    THEN read_bool_safe(s, Vui("low_delay_hrd_flag"))
    ELSE s

(* h264_parser.py 484-491 *)
vui_bitstream_restriction(s) ==
    LET s1 == read_bool_safe(s, Vui("motion_vectors_over_pic_boundaries_flag"))
        s2 == read_ue_safe(s1, Vui("max_bytes_per_pic_denom"))
        s3 == read_ue_safe(s2, Vui("max_bits_per_mb_denom"))
        s4 == read_ue_safe(s3, Vui("log2_max_mv_length_horizontal"))
        s5 == read_ue_safe(s4, Vui("log2_max_mv_length_vertical"))
        s6 == read_ue_safe(s5, Vui("num_reorder_frames"))
    IN IF Truthy(Val(s, Vui("bitstream_restriction_flag")))
       THEN read_ue_safe(s6, Vui("max_dec_frame_buffering"))
       ELSE s

(* h264_parser.py 437-493 *)
parse_vui_parameters(s) ==
    LET a1 == read_bool_safe(s, Vui("aspect_ratio_info_present_flag"))
        a2 == vui_aspect_ratio(a1)
        a3 == read_bool_safe(a2, Vui("overscan_info_present_flag"))
        a4 == vui_overscan(a3)
        a5 == read_bool_safe(a4, Vui("video_signal_type_present_flag"))
        a6 == vui_video_signal_type(a5)
        a7 == read_bool_safe(a6, Vui("chroma_loc_info_present_flag"))
        a8 == vui_chroma_loc(a7)
        a9 == read_bool_safe(a8, Vui("timing_info_present_flag"))
        a10 == vui_timing_info(a9)
        a11 == read_bool_safe(a10, Vui("nal_hrd_parameters_present_flag"))
        a12 == parse_hrd_parameters(a11, Vui("nal_hrd_parameters_present_flag"),
                                    Vui("nal_hrd_parameters"))
        a13 == read_bool_safe(a12, Vui("vcl_hrd_parameters_present_flag"))
        a14 == parse_hrd_parameters(a13, Vui("vcl_hrd_parameters_present_flag"),
                                    Vui("vcl_hrd_parameters"))
        a15 == vui_low_delay_hrd(a14)
        a16 == read_bool_safe(a15, Vui("pic_struct_present_flag"))
        a17 == read_bool_safe(a16, Vui("bitstream_restriction_flag"))
    IN vui_bitstream_restriction(a17)

(* h264_parser.py 383-387 *)
sps_frame_crop(s) ==
    IF Truthy(Val(s, <<"frame_cropping_flag">>))
    THEN read_ue_safe(
             read_ue_safe(
                 read_ue_safe(
                     read_ue_safe(s, <<"frame_crop_left_offset">>),
                     <<"frame_crop_right_offset">>),
                 <<"frame_crop_top_offset">>),
             <<"frame_crop_bottom_offset">>)
    ELSE s

(* h264_parser.py 379-380 *)
mb_adaptive_frame_field_flag(s) ==
    IF Truthy(Val(s, <<"frame_mbs_only_flag">>)) THEN s
    ELSE read_bool_safe(s, <<"mb_adaptive_frame_field_flag">>)

(* h264_parser.py 390-392 *)
sps_vui(s) ==
    IF Truthy(Val(s, <<"vui_parameters_present_flag">>))
    THEN parse_vui_parameters(s)
    ELSE Bound(s, <<"vui_parameters">>, PyNone, s.pos)

(* h264_parser.py 374-392 *)
sps_frame_fields(s) ==
    LET s1 == read_ue_safe(s, <<"num_ref_frames">>)
        s2 == read_bool_safe(s1, <<"gaps_in_frame_num_value_allowed_flag">>)
        s3 == read_ue_safe(s2, <<"pic_width_in_mbs_minus1">>)
        s4 == read_ue_safe(s3, <<"pic_height_in_map_units_minus1">>)
        s5 == read_bool_safe(s4, <<"frame_mbs_only_flag">>)
        s6 == mb_adaptive_frame_field_flag(s5)
        s7 == read_bool_safe(s6, <<"direct_8x8_inference_flag">>)
        s8 == read_bool_safe(s7, <<"frame_cropping_flag">>)
        s9 == sps_frame_crop(s8)
        s10 == read_bool_safe(s9, <<"vui_parameters_present_flag">>)
    IN sps_vui(s10)

(* locals of parse_sps that its result does not carry *)
SpsLoopLocals == {<<"delta_scale">>, <<"seq_scaling_list_present_flag">>, <<"item">>}

(* the keys of the result that are None when their branch was not taken *)
SpsOptionalKeys ==
    {<<"chroma_format_idc">>, <<"separate_colour_plane_flag">>,
     <<"bit_depth_luma_minus8">>, <<"bit_depth_chroma_minus8">>,
     <<"qpprime_y_zero_transform_bypass_flag">>,
     <<"seq_scaling_matrix_present_flag">>,
     <<"log2_max_pic_order_cnt_lsb_minus4">>,
     <<"delta_pic_order_always_zero_flag">>, <<"offset_for_non_ref_pic">>,
     <<"offset_for_top_to_bottom_field">>,
     <<"num_ref_frames_in_pic_order_cnt_cycle">>, <<"offset_for_ref_frame">>,
     <<"mb_adaptive_frame_field_flag">>, <<"frame_crop_left_offset">>,
     <<"frame_crop_right_offset">>, <<"frame_crop_top_offset">>,
     <<"frame_crop_bottom_offset">>}

(* h264_parser.py 394-434: the dict returned, unless an exception left first *)
sps_result(s, data) ==
    IF s.exc # "none" THEN [exc |-> s.exc]
    ELSE [exc |-> "none",
          f |-> [k \in (DOMAIN s.f \cup SpsOptionalKeys) \ SpsLoopLocals |-> Val(s, k)],
          data |-> data]

(* h264_parser.py 327-434 *)
parse_sps(data) ==
    LET s0 == [bits |-> Bits(data), pos |-> 0, f |-> NoFields, exc |-> "none"]
        s1 == read_uint_safe(s0, <<"profile_idc">>, 8)
        s2 == read_bool_safe(s1, <<"constraint_set0_flag">>)
        s3 == read_bool_safe(s2, <<"constraint_set1_flag">>)
        s4 == read_bool_safe(s3, <<"constraint_set2_flag">>)
        s5 == read_bool_safe(s4, <<"constraint_set3_flag">>)
        s6 == read_bool_safe(s5, <<"constraint_set4_flag">>)
        s7 == read_bool_safe(s6, <<"constraint_set5_flag">>)
        s8 == read_uint_safe(s7, <<"reserved_zero_2bits">>, 2)
        s9 == read_uint_safe(s8, <<"level_idc">>, 8)
        s10 == read_ue_safe(s9, <<"seq_parameter_set_id">>)
        s11 == sps_high_profile(s10)
        s12 == read_ue_safe(s11, <<"log2_max_frame_num_minus4">>)
        s13 == read_ue_safe(s12, <<"pic_order_cnt_type">>)
        s14 == sps_pic_order_cnt(s13)
        s15 == sps_frame_fields(s14)
    IN sps_result(s15, data)

(* h264_parser.py 288-308, with either value of has_start_code *)
parse_nal_unit(nal_unit, has_start_code) ==
    IF has_start_code THEN H264NalUnit(nal_unit)
    ELSE IF nal_unit = <<>> THEN [exc |-> "IndexError"]
    ELSE [exc |-> "none",
          forbidden_zero_bit |-> (nal_unit[1] \div 128) % 2,
          nal_ref_idc |-> (nal_unit[1] \div 32) % 4,
          nal_type |-> nal_unit[1] % 32,
          data |-> nal_unit,
          raw_data |-> remove_emulation_prevention_bytes(PyFrom(nal_unit, 1), 0)]

(* NAL units of type 7: a header byte, profile_idc, the constraint flags,
   level_idc, one byte that holds the first exp-Golomb codes, and a tail *)
SpsHeaderBytes == {103}
SpsProfileBytes == {66, 100}
SpsFlagBytes == {192}
SpsLevelBytes == {30}
SpsCodeBytes == {217, 248, 244, 172, 154, 72, 46, 16}
SpsTails == {<<1, 64, 123, 32>>, <<0, 0, 3, 1>>}
StartCodes == {<<>>, <<0, 0, 1>>, <<0, 0, 0, 1>>}

SpsUnits ==
    {<<h, p, c, l, g>> \o tail :
        h \in SpsHeaderBytes, p \in SpsProfileBytes, c \in SpsFlagBytes,
        l \in SpsLevelBytes, g \in SpsCodeBytes, tail \in SpsTails}

SpsInit ==
    /\ SeiIdle
    /\ SliceHeaderIdle
    /\ RpsIdle
    /\ AnalyzeIdle
    /\ ParseIdle
    /\ EpbIdle
    /\ DispatchIdle
    /\ HeifIdle
    /\ SelectIdle
    /\ kpc = "start"
    /\ \E start_code \in StartCodes, unit \in SpsUnits :
           /\ sps_unit = start_code \o unit
           /\ sps_has_start_code = (start_code # <<>>)
    /\ sps_nal = NoNal
    /\ sps_parsed = NoSps

(* h264_parser.py 198 / 288-308 *)
ParseNalUnit ==
    /\ kpc = "start"
    /\ sps_nal' = parse_nal_unit(sps_unit, sps_has_start_code)
    /\ kpc' = IF sps_nal'.exc = "none" THEN "nal" ELSE "raised"
    /\ UNCHANGED <<sps_unit, sps_has_start_code, sps_parsed>>
    /\ UNCHANGED outside_sps

(* h264_parser.py 224-226 / 327-434 *)
ParseSps ==
    /\ kpc = "nal"
    /\ sps_nal.nal_type = 7
    /\ sps_parsed' = parse_sps(sps_nal.raw_data)
    /\ kpc' = IF sps_parsed'.exc = "none" THEN "parsed" ELSE "raised"
    /\ UNCHANGED <<sps_unit, sps_has_start_code, sps_nal>>
    /\ UNCHANGED outside_sps

SpsNext ==
    \/ ParseNalUnit
    \/ ParseSps

SpsSpec == SpsInit /\ [][SpsNext]_vars

SpsExample == <<103, 66, 192, 30, 217, 1, 64, 123, 32>>

SpsField(name) == sps_parsed.f[<<name>>]

(* C20 as stated: the bytes 67 42 C0 1E D9 01 40 7B 20, parsed, give
   profile_idc 66, level_idc 30, seq_parameter_set_id 0,
   log2_max_frame_num_minus4 0 and pic_order_cnt_type 0 *)
C20_Stated ==
    (kpc = "parsed" /\ sps_unit = SpsExample)
        => /\ SpsField("profile_idc") = PyInt(66)
           /\ SpsField("level_idc") = PyInt(30)
           /\ SpsField("seq_parameter_set_id") = PyInt(0)
           /\ SpsField("log2_max_frame_num_minus4") = PyInt(0)
           /\ SpsField("pic_order_cnt_type") = PyInt(0)

(* C20: the bytes 67 42 C0 1E D9 01 40 7B 20, with or without a start code
   before them, are parsed without an exception and give profile_idc 66,
   level_idc 30, seq_parameter_set_id 0, log2_max_frame_num_minus4 0 and
   pic_order_cnt_type 2 (byte D9 is the codes 1, 1, 011: 0, 0, 2) *)
C20_SpsExample ==
    (kpc # "start" /\ \E start_code \in StartCodes : sps_unit = start_code \o SpsExample)
        => /\ sps_nal.exc = "none"
           /\ sps_nal.nal_type = 7
           /\ kpc # "raised"
           /\ kpc = "parsed"
                  => /\ SpsField("profile_idc") = PyInt(66)
                     /\ SpsField("level_idc") = PyInt(30)
                     /\ SpsField("seq_parameter_set_id") = PyInt(0)
                     /\ SpsField("log2_max_frame_num_minus4") = PyInt(0)
                     /\ SpsField("pic_order_cnt_type") = PyInt(2)

C20_Witness ==
    /\ kpc = "parsed"
    /\ sps_unit = SpsExample
    /\ ~sps_has_start_code
    /\ SpsField("pic_order_cnt_type") = PyInt(2)

(***************************************************************************)
(* parse_short_term_ref_pic_set (hevc_parser.py 995-1034), bit by bit, as  *)
(* parse_sps calls it in a loop (hevc_parser.py 507-509) and as the slice  *)
(* segment header calls it once (hevc_parser.py 2181-2183).  The readers   *)
(* of hevc_parser.py give None past the end of the data and on a ReadError *)
(* alike, and leave bs.pos where it was.                                   *)
(***************************************************************************)
MaxRpsBits == 10
MaxRpsSets == 3

NoValue(pos) == [val |-> PyNone, pos |-> pos]

(* hevc_parser.py 91-98 *)
hevc_read_ue_safe(bits, pos) ==
    IF pos < Len(bits) /\ exp_golomb(bits, pos).ok
    THEN [val |-> PyInt(exp_golomb(bits, pos).val), pos |-> exp_golomb(bits, pos).pos]
    ELSE NoValue(pos)

(* hevc_parser.py 109-116 *)
hevc_read_bool_safe(bits, pos) ==
    IF pos < Len(bits)
    THEN [val |-> PyBool(bits[pos + 1]), pos |-> pos + 1]
    ELSE NoValue(pos)

(* hevc_parser.py 118-125 *)
hevc_read_uint_safe(bits, pos, n) ==
    IF pos + n <= Len(bits)
    THEN [val |-> PyInt(Uint(bits, pos, n)), pos |-> pos + n]
    ELSE NoValue(pos)

(* hevc_parser.py 996-1003: the dict as the function starts it; explicit
   tells whether the keys of lines 1019-1024 are in it *)
EmptyRps ==
    [inter_ref_pic_set_prediction_flag |-> PyNone,
     delta_idx_minus1 |-> PyNone,
     delta_rps_sign |-> PyNone,
     abs_delta_rps_minus1 |-> PyNone,
     used_by_curr_pic_flag |-> <<>>,
     use_delta_flag |-> <<>>,
     explicit |-> FALSE,
     num_negative_pics |-> PyNone,
     num_positive_pics |-> PyNone,
     delta_poc_s0_minus1 |-> <<>>,
     used_by_curr_pic_s0_flag |-> <<>>,
     delta_poc_s1_minus1 |-> <<>>,
     used_by_curr_pic_s1_flag |-> <<>>]

(* hevc_parser.py 1012 *)
NumDeltaPocs == 0

(* hevc_parser.py 1015-1017: the flag read, appended; `not None` is true *)
used_by_curr_pic_flag(bits, t) ==
    LET used == hevc_read_bool_safe(bits, t.pos)
        delta == hevc_read_bool_safe(bits, used.pos)
    IN IF Truthy(used.val)
       THEN [t EXCEPT !.pos = used.pos,
                      !.rps.used_by_curr_pic_flag = Append(@, used.val)]
       ELSE [t EXCEPT !.pos = delta.pos,
                      !.rps.used_by_curr_pic_flag = Append(@, used.val),
                      !.rps.use_delta_flag = Append(@, delta.val)]

(* hevc_parser.py 1013-1017: the j loop, n rounds left *)
RECURSIVE rps_used_flags(_, _, _)
rps_used_flags(bits, t, n) ==
    IF n = 0 THEN t
    ELSE rps_used_flags(bits, used_by_curr_pic_flag(bits, t), n - 1)

(* hevc_parser.py 1008-1017 *)
rps_predicted(bits, pos, rps_idx, num) ==
    LET d == IF rps_idx = num THEN hevc_read_ue_safe(bits, pos) ELSE NoValue(pos)
        s == hevc_read_uint_safe(bits, d.pos, 1)
        a == hevc_read_ue_safe(bits, s.pos)
    IN rps_used_flags(bits,
           [rps |-> [EmptyRps EXCEPT !.inter_ref_pic_set_prediction_flag = PyBool(1),
                                     !.delta_idx_minus1 = d.val,
                                     !.delta_rps_sign = s.val,
                                     !.abs_delta_rps_minus1 = a.val],
            pos |-> a.pos,
            exc |-> "none"],
           NumDeltaPocs + 1)

(* hevc_parser.py 1005-1017: st_rps_idx != 0 *)
rps_inter(bits, pos, rps_idx, num) ==
    LET flag == hevc_read_bool_safe(bits, pos)
    IN IF Truthy(flag.val)
       THEN rps_predicted(bits, flag.pos, rps_idx, num)
       ELSE [rps |-> [EmptyRps EXCEPT !.inter_ref_pic_set_prediction_flag = flag.val],
             pos |-> flag.pos,
             exc |-> "none"]

(* hevc_parser.py 1026-1028, 1030-1032: one round of a loop *)
rps_entry(bits, t, delta, used) ==
    LET d == hevc_read_ue_safe(bits, t.pos)
        u == hevc_read_bool_safe(bits, d.pos)
    IN [t EXCEPT !.pos = u.pos,
                 !.rps[delta] = Append(@, d.val),
                 !.rps[used] = Append(@, u.val)]

(* hevc_parser.py 1026-1032: a loop, n rounds left *)
RECURSIVE rps_entries(_, _, _, _, _)
rps_entries(bits, t, n, delta, used) ==
    IF n <= 0 THEN t
    ELSE rps_entries(bits, rps_entry(bits, t, delta, used), n - 1, delta, used)

(* hevc_parser.py 1030-1032: range(None) is a TypeError *)
rps_positive(bits, t) ==
    IF t.rps.num_positive_pics.t = "none"
    THEN [t EXCEPT !.exc = "TypeError"]
    ELSE rps_entries(bits, t, t.rps.num_positive_pics.v,
                     "delta_poc_s1_minus1", "used_by_curr_pic_s1_flag")

(* hevc_parser.py 1018-1032: st_rps_idx == 0 *)
rps_explicit(bits, pos) ==
    LET n == hevc_read_ue_safe(bits, pos)
        p == hevc_read_ue_safe(bits, n.pos)
        t == [rps |-> [EmptyRps EXCEPT !.explicit = TRUE,
                                       !.num_negative_pics = n.val,
                                       !.num_positive_pics = p.val],
              pos |-> p.pos,
              exc |-> "none"]
    IN IF n.val.t = "none"
       THEN [t EXCEPT !.exc = "TypeError"]
       ELSE rps_positive(bits,
                rps_entries(bits, t, n.val.v,
                            "delta_poc_s0_minus1", "used_by_curr_pic_s0_flag"))

(* hevc_parser.py 995-1034 *)
parse_short_term_ref_pic_set(bits, pos, rps_idx, num) ==
    IF rps_idx # 0
    THEN rps_inter(bits, pos, rps_idx, num)
    ELSE rps_explicit(bits, pos)

RpsBitStrings == SeqsUpTo({0, 1}, MaxRpsBits)

RpsInit ==
    /\ SeiIdle
    /\ SliceHeaderIdle
    /\ AnalyzeIdle
    /\ ParseIdle
    /\ EpbIdle
    /\ DispatchIdle
    /\ HeifIdle
    /\ SelectIdle
    /\ SpsIdle
    /\ rpc = "call"
    /\ rps_caller \in {"sps", "slice"}
    /\ rps_bits \in RpsBitStrings
    /\ rps_pos = 0
    /\ num_short_term_ref_pic_sets \in
           (IF rps_caller = "sps" THEN 1..MaxRpsSets ELSE 0..MaxRpsSets)
    /\ st_rps_idx = (IF rps_caller = "sps" THEN 0 ELSE num_short_term_ref_pic_sets)
    /\ short_term_ref_pic_set = <<>>
    /\ rexc = "none"

RpsCall(next_pc) ==
    LET t == parse_short_term_ref_pic_set(rps_bits, rps_pos, st_rps_idx,
                                          num_short_term_ref_pic_sets)
    IN /\ rps_pos' = t.pos
       /\ rexc' = t.exc
       /\ short_term_ref_pic_set' =
              (IF t.exc = "none" THEN Append(short_term_ref_pic_set, t.rps)
               ELSE short_term_ref_pic_set)
       /\ rpc' = (IF t.exc = "none" THEN next_pc ELSE "raised")

(* hevc_parser.py 509: one round of the list comprehension *)
SpsRps ==
    /\ rpc = "call"
    /\ rps_caller = "sps"
    /\ st_rps_idx < num_short_term_ref_pic_sets
    /\ RpsCall(IF st_rps_idx + 1 = num_short_term_ref_pic_sets THEN "done" ELSE "call")
    /\ st_rps_idx' = st_rps_idx + 1
    /\ UNCHANGED <<rps_caller, rps_bits, num_short_term_ref_pic_sets>>
    /\ UNCHANGED outside_rps

(* hevc_parser.py 2181-2183: short_term_ref_pic_set_sps_flag == False *)
SliceRps ==
    /\ rpc = "call"
    /\ rps_caller = "slice"
    /\ RpsCall("done")
    /\ UNCHANGED <<rps_caller, rps_bits, st_rps_idx, num_short_term_ref_pic_sets>>
    /\ UNCHANGED outside_rps

RpsNext ==
    \/ SpsRps
    \/ SliceRps

RpsSpec == RpsInit /\ [][RpsNext]_vars

(* the sets the parse returned, each with the index it was parsed at *)
RpsIndexOf(k) == IF rps_caller = "sps" THEN k - 1 ELSE num_short_term_ref_pic_sets

(* NumDeltaPocs of a set in the explicit form *)
NumDeltaPocsOf(rps) == rps.num_negative_pics.v + rps.num_positive_pics.v

(* C21: in the loop of parse_sps, a set parsed with
   inter_ref_pic_set_prediction_flag 1 whose reference set, the set parsed
   before it, is in the explicit form has NumDeltaPocs(reference set) + 1
   used_by_curr_pic_flag values, and one use_delta_flag for each of them
   that is not 1 *)
C21_UsedFlagsPerDeltaPoc ==
    rps_caller = "sps" =>
        \A k \in 2..Len(short_term_ref_pic_set) :
            (/\ short_term_ref_pic_set[k].inter_ref_pic_set_prediction_flag = PyBool(1)
             /\ short_term_ref_pic_set[k - 1].explicit)
                => /\ Len(short_term_ref_pic_set[k].used_by_curr_pic_flag) =
                          NumDeltaPocsOf(short_term_ref_pic_set[k - 1]) + 1
                   /\ Len(short_term_ref_pic_set[k].use_delta_flag) =
                          Cardinality({j \in DOMAIN short_term_ref_pic_set[k].used_by_curr_pic_flag :
                                          ~Truthy(short_term_ref_pic_set[k].used_by_curr_pic_flag[j])})

(* the explicit form of a parsed set is complete: both counts, and one
   delta_poc_minus1 and one used_by_curr_pic flag for each picture *)
ExplicitForm(rps) ==
    /\ rps.explicit
    /\ rps.num_negative_pics.t = "int"
    /\ rps.num_positive_pics.t = "int"
    /\ Len(rps.delta_poc_s0_minus1) = rps.num_negative_pics.v
    /\ Len(rps.used_by_curr_pic_s0_flag) = rps.num_negative_pics.v
    /\ Len(rps.delta_poc_s1_minus1) = rps.num_positive_pics.v
    /\ Len(rps.used_by_curr_pic_s1_flag) = rps.num_positive_pics.v

(* the bits of num_negative_pics 1, num_positive_pics 0,
   delta_poc_s0_minus1[0] 0, used_by_curr_pic_s0_flag[0] 1 *)
RpsExample == <<0, 1, 0, 1, 1, 1>>

(* C22: a parsed set that is not inter-predicted (index 0, or a later index
   whose inter_ref_pic_set_prediction_flag read 0) is in the explicit form;
   the bits 010 1 1 1 at index 0 give one negative picture, delta_poc
   minus1 0 (delta POC -1), used *)
C22_ExplicitWhenNotPredicted ==
    /\ \A k \in 1..Len(short_term_ref_pic_set) :
           (\/ RpsIndexOf(k) = 0
            \/ short_term_ref_pic_set[k].inter_ref_pic_set_prediction_flag = PyBool(0))
               => ExplicitForm(short_term_ref_pic_set[k])
    /\ (Len(short_term_ref_pic_set) >= 1 /\ rps_caller = "sps"
            /\ Len(rps_bits) >= 6 /\ SubSeq(rps_bits, 1, 6) = RpsExample)
           => /\ short_term_ref_pic_set[1].num_negative_pics = PyInt(1)
              /\ short_term_ref_pic_set[1].num_positive_pics = PyInt(0)
              /\ short_term_ref_pic_set[1].delta_poc_s0_minus1 = <<PyInt(0)>>
              /\ short_term_ref_pic_set[1].used_by_curr_pic_s0_flag = <<PyBool(1)>>
              /\ short_term_ref_pic_set[1].delta_poc_s1_minus1 = <<>>

(***************************************************************************)
(* parse_slice_segment_header (hevc_parser.py 2121-2315), in parts.  A     *)
(* part starts with the BitStream at the first bit it reads and with the   *)
(* slice_header the lines before it have built; Field binds what a reader  *)
(* returned to a key of the dict being built.                              *)
(***************************************************************************)
MaxPwtBits == 7
DefaultActiveMinus1 == {0, 1}

(* hevc_parser.py 100-107 *)
hevc_read_se_safe(bits, pos) ==
    IF pos < Len(bits) /\ signed_exp_golomb(bits, pos).ok
    THEN [val |-> PyInt(signed_exp_golomb(bits, pos).val),
          pos |-> signed_exp_golomb(bits, pos).pos]
    ELSE NoValue(pos)

Field(t, name, read) == [t EXCEPT !.f = Put(@, name, read.val), !.pos = read.pos]

(* list.append on the list at a key *)
ListAppend(f, name, val) == Put(f, name, PyList(Append(f[name].v, val)))

(* hevc_parser.py 2228-2230 *)
num_ref_idx_active(bits, t) ==
    LET l0 == Field(t, "num_ref_idx_l0_active_minus1", hevc_read_ue_safe(bits, t.pos))
    IN IF t.f["slice_type"] = PyStr("B")
       THEN Field(l0, "num_ref_idx_l1_active_minus1", hevc_read_ue_safe(bits, l0.pos))
       ELSE l0

(* hevc_parser.py 2226-2230 *)
num_ref_idx_active_override(bits, t) ==
    LET flag == Field(t, "num_ref_idx_active_override_flag",
                      hevc_read_bool_safe(bits, t.pos))
    IN IF Truthy(flag.f["num_ref_idx_active_override_flag"])
       THEN num_ref_idx_active(bits, flag)
       ELSE flag

(* hevc_parser.py 2243-2244 *)
mvd_l1_zero_flag(bits, t) ==
    IF t.f["slice_type"] = PyStr("B")
    THEN Field(t, "mvd_l1_zero_flag", hevc_read_bool_safe(bits, t.pos))
    ELSE t

(* hevc_parser.py 2246-2247 *)
cabac_init_flag(bits, t, pps) ==
    IF pps.cabac_init_present_flag
    THEN Field(t, "cabac_init_flag", hevc_read_bool_safe(bits, t.pos))
    ELSE t

(* hevc_parser.py 2358: [read_se_safe(bs) for _ in range(2)] *)
se_pair(bits, pos) ==
    LET a == hevc_read_se_safe(bits, pos)
    IN [val |-> <<a.val, hevc_read_se_safe(bits, a.pos).val>>,
        pos |-> hevc_read_se_safe(bits, a.pos).pos]

(* hevc_parser.py 2358: [[...] for _ in range(n)], n pairs left, after the
   pairs of val *)
RECURSIVE se_pairs(_, _, _)
se_pairs(bits, read, n) ==
    IF n = 0 THEN read
    ELSE CHOOSE rest \in
             {se_pairs(bits,
                       [val |-> Append(r.val, p.val), pos |-> p.pos],
                       n - 1) : r \in {read}, p \in {se_pair(bits, read.pos)}} : TRUE

(* the keys of list 0 and of list 1 *)
PwtKeys ==
    [l0 |-> [luma_flag |-> "luma_weight_l0_flag",
             luma_weight |-> "luma_weight_l0",
             luma_offset |-> "luma_offset_l0",
             chroma_flag |-> "chroma_weight_l0_flag",
             chroma_weight |-> "chroma_weight_l0",
             chroma_offset |-> "chroma_offset_l0",
             delta_weight |-> "delta_chroma_weight_l0",
             delta_offset |-> "delta_chroma_offset_l0"],
     l1 |-> [luma_flag |-> "luma_weight_l1_flag",
             luma_weight |-> "luma_weight_l1",
             luma_offset |-> "luma_offset_l1",
             chroma_flag |-> "chroma_weight_l1_flag",
             chroma_weight |-> "chroma_weight_l1",
             chroma_offset |-> "chroma_offset_l1",
             delta_weight |-> "delta_chroma_weight_l1",
             delta_offset |-> "delta_chroma_offset_l1"]]

(* hevc_parser.py 2351-2354, 2369-2372 *)
pwt_luma(bits, t, k) ==
    LET flag == hevc_read_bool_safe(bits, t.pos)
        weight == hevc_read_se_safe(bits, flag.pos)
        offset == hevc_read_se_safe(bits, weight.pos)
    IN IF Truthy(flag.val)
       THEN [t EXCEPT !.f = ListAppend(ListAppend(Put(@, k.luma_flag, flag.val),
                                                  k.luma_weight, weight.val),
                                       k.luma_offset, offset.val),
                      !.pos = offset.pos]
       ELSE [t EXCEPT !.f = Put(@, k.luma_flag, flag.val), !.pos = flag.pos]

(* hevc_parser.py 2355-2359, 2373-2377 *)
pwt_chroma(bits, t, k, n) ==
    LET flag == hevc_read_bool_safe(bits, t.pos)
        weight == se_pairs(bits, [val |-> <<>>, pos |-> flag.pos], n + 1)
        offset == se_pairs(bits, [val |-> <<>>, pos |-> weight.pos], n + 1)
    IN IF Truthy(flag.val)
       THEN [t EXCEPT !.f = Put(Put(Put(@, k.chroma_flag, flag.val),
                                    k.delta_weight, PyList(weight.val)),
                                k.delta_offset, PyList(offset.val)),
                      !.pos = offset.pos]
       ELSE [t EXCEPT !.f = Put(@, k.chroma_flag, flag.val), !.pos = flag.pos]

(* hevc_parser.py 2351-2359, 2369-2377: one round of the i loop; rounds
   counts the rounds made *)
pwt_round(bits, t, list, ChromaArrayType, n) ==
    [(IF ChromaArrayType # 0
      THEN pwt_chroma(bits, pwt_luma(bits, t, PwtKeys[list]), PwtKeys[list], n)
      ELSE pwt_luma(bits, t, PwtKeys[list]))
        EXCEPT !.rounds[list] = @ + 1]

(* hevc_parser.py 2350-2359, 2368-2377: the i loop, `left` rounds left, from
   the value u of t *)
RECURSIVE pwt_rounds(_, _, _, _, _, _)
pwt_rounds(bits, t, list, ChromaArrayType, n, left) ==
    IF left <= 0 THEN t
    ELSE CHOOSE rest \in
             {pwt_rounds(bits, pwt_round(bits, u, list, ChromaArrayType, n),
                         list, ChromaArrayType, n, left - 1) : u \in {t}} : TRUE

(* the four lists of a reference list set to [] *)
pwt_lists(t, k) ==
    [t EXCEPT !.f = Put(Put(Put(Put(@, k.luma_weight, PyList(<<>>)),
                                k.luma_offset, PyList(<<>>)),
                            k.chroma_weight, PyList(<<>>)),
                        k.chroma_offset, PyList(<<>>))]

(* hevc_parser.py 2345-2359 *)
pwt_l0(bits, t, ChromaArrayType, l0) ==
    IF l0.t # "none"
    THEN pwt_rounds(bits, pwt_lists(t, PwtKeys.l0), "l0", ChromaArrayType, l0.v, l0.v + 1)
    ELSE pwt_lists(t, PwtKeys.l0)

(* hevc_parser.py 2361-2377 *)
pwt_l1(bits, t, ChromaArrayType, slice_type, l1) ==
    IF l1.t # "none" /\ slice_type = PyStr("B")
    THEN pwt_rounds(bits, pwt_lists(t, PwtKeys.l1), "l1", ChromaArrayType, l1.v, l1.v + 1)
    ELSE t

(* hevc_parser.py 2341-2343 *)
pwt_denom(bits, pos, ChromaArrayType) ==
    LET luma == Field([f |-> <<>>, pos |-> pos, rounds |-> [l0 |-> 0, l1 |-> 0]],
                      "luma_log2_weight_denom", hevc_read_ue_safe(bits, pos))
    IN IF ChromaArrayType # 0
       THEN Field(luma, "delta_chroma_log2_weight_denom",
                  hevc_read_se_safe(bits, luma.pos))
       ELSE luma

(* hevc_parser.py 2339 *)
ChromaArrayTypeOf(sps) ==
    IF sps.separate_colour_plane_flag = 0 THEN sps.chroma_format_idc ELSE 0

(* hevc_parser.py 2336-2379 *)
parse_pred_weight_table(bits, pos, header, sps, l0, l1) ==
    pwt_l1(bits,
           pwt_l0(bits, pwt_denom(bits, pos, ChromaArrayTypeOf(sps)),
                  ChromaArrayTypeOf(sps), l0),
           ChromaArrayTypeOf(sps), header["slice_type"], l1)

NoTable == [made |-> FALSE, f |-> <<>>, rounds |-> [l0 |-> 0, l1 |-> 0]]

(* The part of lines 2225-2263: a P or B slice; no reference picture set in
   the header, lists_modification_present_flag 0 and no temporal motion
   vector prediction, so that lines 2232-2241 and 2249-2256 read nothing *)
WeightInit ==
    /\ SeiIdle
    /\ AnalyzeIdle
    /\ ParseIdle
    /\ EpbIdle
    /\ DispatchIdle
    /\ HeifIdle
    /\ SelectIdle
    /\ SpsIdle
    /\ RpsIdle
    /\ sh_pc = "ref_idx"
    /\ sh_codec = "H.265"
    /\ sh_bits \in SeqsUpTo({0, 1}, MaxPwtBits)
    /\ sh_pos = 0
    /\ nal_unit_type = 1
    /\ sh_sps \in [chroma_format_idc : {0, 1}, separate_colour_plane_flag : {0}]
    /\ sh_pps \in [cabac_init_present_flag : BOOLEAN,
                   weighted_pred_flag : BOOLEAN,
                   weighted_bipred_flag : BOOLEAN,
                   num_ref_idx_l0_default_active_minus1 : DefaultActiveMinus1,
                   num_ref_idx_l1_default_active_minus1 : {0}]
    /\ \E slice_type \in {"P", "B"} :
           slice_header = Put(<<>>, "slice_type", PyStr(slice_type))
    /\ pred_weight_table = NoTable
    /\ sh_exc = "none"

(* hevc_parser.py 2225-2247 *)
RefIdxActive ==
    /\ sh_pc = "ref_idx"
    /\ LET t == cabac_init_flag(sh_bits,
                    mvd_l1_zero_flag(sh_bits,
                        num_ref_idx_active_override(sh_bits,
                            [f |-> slice_header, pos |-> sh_pos])),
                    sh_pps)
       IN /\ slice_header' = t.f
          /\ sh_pos' = t.pos
    /\ sh_pc' = "weights"
    /\ UNCHANGED <<sh_codec, sh_bits, nal_unit_type, sh_sps, sh_pps, pred_weight_table, sh_exc>>
    /\ UNCHANGED outside_slice_header

(* hevc_parser.py 2258-2259 *)
Weighted ==
    \/ sh_pps.weighted_pred_flag /\ slice_header["slice_type"] = PyStr("P")
    \/ sh_pps.weighted_bipred_flag /\ slice_header["slice_type"] = PyStr("B")

(* hevc_parser.py 2258-2261 *)
PredWeightTable ==
    /\ sh_pc = "weights"
    /\ Weighted
    /\ LET t == parse_pred_weight_table(sh_bits, sh_pos, slice_header, sh_sps,
                    Get(slice_header, "num_ref_idx_l0_active_minus1", PyNone),
                    Get(slice_header, "num_ref_idx_l1_active_minus1", PyNone))
       IN /\ pred_weight_table' = [made |-> TRUE, f |-> t.f, rounds |-> t.rounds]
          /\ sh_pos' = t.pos
    /\ sh_pc' = "merge"
    /\ UNCHANGED <<sh_codec, sh_bits, nal_unit_type, sh_sps, sh_pps, slice_header, sh_exc>>
    /\ UNCHANGED outside_slice_header

(* hevc_parser.py 2263 *)
MergeCand ==
    /\ \/ sh_pc = "merge"
       \/ sh_pc = "weights" /\ ~Weighted
    /\ LET t == Field([f |-> slice_header, pos |-> sh_pos],
                      "five_minus_max_num_merge_cand",
                      hevc_read_ue_safe(sh_bits, sh_pos))
       IN /\ slice_header' = t.f
          /\ sh_pos' = t.pos
    /\ sh_pc' = "merged"
    /\ UNCHANGED <<sh_codec, sh_bits, nal_unit_type, sh_sps, sh_pps, pred_weight_table, sh_exc>>
    /\ UNCHANGED outside_slice_header

WeightNext ==
    \/ RefIdxActive
    \/ PredWeightTable
    \/ MergeCand

WeightSpec == WeightInit /\ [][WeightNext]_vars

(* num_ref_idx_lX_active_minus1 of the slice: the header's value when
   num_ref_idx_active_override_flag is 1, the default of the PPS when it is 0 *)
ActiveMinus1(header_key, pps_key) ==
    IF slice_header["num_ref_idx_active_override_flag"] = PyBool(1)
    THEN slice_header[header_key]
    ELSE IF slice_header["num_ref_idx_active_override_flag"] = PyBool(0)
    THEN PyInt(sh_pps[pps_key])
    ELSE PyNone

(* C23: a pred-weight-table that was parsed made
   num_ref_idx_l0_active_minus1 + 1 rounds for list 0 and, in a B slice,
   num_ref_idx_l1_active_minus1 + 1 rounds for list 1, the counts being the
   defaults of the PPS when num_ref_idx_active_override_flag is 0 *)
C23_WeightTableSize ==
    pred_weight_table.made =>
        /\ ActiveMinus1("num_ref_idx_l0_active_minus1",
                        "num_ref_idx_l0_default_active_minus1").t = "int"
               => pred_weight_table.rounds.l0 =
                      ActiveMinus1("num_ref_idx_l0_active_minus1",
                                   "num_ref_idx_l0_default_active_minus1").v + 1
        /\ (/\ slice_header["slice_type"] = PyStr("B")
            /\ ActiveMinus1("num_ref_idx_l1_active_minus1",
                            "num_ref_idx_l1_default_active_minus1").t = "int")
               => pred_weight_table.rounds.l1 =
                      ActiveMinus1("num_ref_idx_l1_active_minus1",
                                   "num_ref_idx_l1_default_active_minus1").v + 1

(* the override case alone: with num_ref_idx_active_override_flag 1 the
   table has the header's counts *)
WeightTableSizeOverridden ==
    (pred_weight_table.made
         /\ slice_header["num_ref_idx_active_override_flag"] = PyBool(1))
        => C23_WeightTableSize

(***************************************************************************)
(* parse_slice_segment_header, lines 2121-2152: the start of the header    *)
(* and slice_segment_address.                                              *)
(***************************************************************************)
MaxAddressBits == 6
PicWidths == {0, 8, 16, 24}
PicHeights == {8, 16}

(* math.ceil(math.log2(n)) for n >= 1: the least k with 2^k >= n *)
RECURSIVE CeilLog2From(_, _)
CeilLog2From(n, k) == IF 2 ^ k >= n THEN k ELSE CeilLog2From(n, k + 1)

CeilLog2(n) == CeilLog2From(n, 0)

(* hevc_parser.py 2137-2139 *)
CtbLog2SizeY(sps) ==
    (sps.log2_min_luma_coding_block_size_minus3 + 3)
        + sps.log2_diff_max_min_luma_coding_block_size

(* hevc_parser.py 2140-2145; (a + b - 1) // b *)
PicSizeInCtbsY(sps) ==
    LET CtbSizeY == 2 ^ CtbLog2SizeY(sps)
    IN ((sps.pic_width_in_luma_samples + CtbSizeY - 1) \div CtbSizeY)
           * ((sps.pic_height_in_luma_samples + CtbSizeY - 1) \div CtbSizeY)

(* hevc_parser.py 2148: max(1, math.ceil(math.log2(PicSizeInCtbsY))) *)
address_bits(sps) ==
    IF CeilLog2(PicSizeInCtbsY(sps)) > 1 THEN CeilLog2(PicSizeInCtbsY(sps)) ELSE 1

(* hevc_parser.py 2126-2127 *)
no_output_of_prior_pics_flag(bits, t, type) ==
    IF type >= 16 /\ type <= 23
    THEN Field(t, "no_output_of_prior_pics_flag", hevc_read_bool_safe(bits, t.pos))
    ELSE t

(* hevc_parser.py 2124-2131 *)
slice_header_start(bits, type) ==
    LET first == Field([f |-> <<>>, pos |-> 0], "first_slice_segment_in_pic_flag",
                       hevc_read_bool_safe(bits, 0))
        prior == no_output_of_prior_pics_flag(bits, first, type)
        id == Field(prior, "slice_pic_parameter_set_id",
                    hevc_read_ue_safe(bits, prior.pos))
    IN [id EXCEPT !.f = Put(Put(@, "dependent_slice_segment_flag", PyBool(0)),
                            "slice_segment_address",
                            IF Truthy(id.f["first_slice_segment_in_pic_flag"])
                            THEN PyInt(0) ELSE PyNone)]

AddressInit ==
    /\ SeiIdle
    /\ AnalyzeIdle
    /\ ParseIdle
    /\ EpbIdle
    /\ DispatchIdle
    /\ HeifIdle
    /\ SelectIdle
    /\ SpsIdle
    /\ RpsIdle
    /\ sh_pc = "start"
    /\ sh_codec = "H.265"
    /\ sh_bits \in SeqsUpTo({0, 1}, MaxAddressBits)
    /\ sh_pos = 0
    /\ nal_unit_type \in {1, 19}
    /\ sh_sps \in [log2_min_luma_coding_block_size_minus3 : {0},
                   log2_diff_max_min_luma_coding_block_size : {0, 1},
                   pic_width_in_luma_samples : PicWidths,
                   pic_height_in_luma_samples : PicHeights]
    /\ sh_pps \in [dependent_slice_segments_enabled_flag : BOOLEAN]
    /\ slice_header = <<>>
    /\ pred_weight_table = <<>>
    /\ sh_exc = "none"

(* hevc_parser.py 2124-2133; None == False is false *)
SliceHeaderStart ==
    /\ sh_pc = "start"
    /\ LET t == slice_header_start(sh_bits, nal_unit_type)
       IN /\ slice_header' = t.f
          /\ sh_pos' = t.pos
          /\ sh_pc' = IF t.f["first_slice_segment_in_pic_flag"] = PyBool(0)
                      THEN "dependent" ELSE "slice_type"
    /\ UNCHANGED <<sh_codec, sh_bits, nal_unit_type, sh_sps, sh_pps, pred_weight_table, sh_exc>>
    /\ UNCHANGED outside_slice_header

(* hevc_parser.py 2134-2135 *)
DependentSliceSegmentFlag ==
    /\ sh_pc = "dependent"
    /\ LET t == IF sh_pps.dependent_slice_segments_enabled_flag
                THEN Field([f |-> slice_header, pos |-> sh_pos],
                           "dependent_slice_segment_flag",
                           hevc_read_bool_safe(sh_bits, sh_pos))
                ELSE [f |-> slice_header, pos |-> sh_pos]
       IN /\ slice_header' = t.f
          /\ sh_pos' = t.pos
    /\ sh_pc' = "address"
    /\ UNCHANGED <<sh_codec, sh_bits, nal_unit_type, sh_sps, sh_pps, pred_weight_table, sh_exc>>
    /\ UNCHANGED outside_slice_header

(* hevc_parser.py 2137-2152 *)
SliceSegmentAddress ==
    /\ sh_pc = "address"
    /\ LET t == IF PicSizeInCtbsY(sh_sps) > 0
                THEN Field([f |-> slice_header, pos |-> sh_pos],
                           "slice_segment_address",
                           hevc_read_uint_safe(sh_bits, sh_pos, address_bits(sh_sps)))
                ELSE [f |-> Put(slice_header, "slice_segment_address", PyInt(0)),
                      pos |-> sh_pos]
       IN /\ slice_header' = t.f
          /\ sh_pos' = t.pos
    /\ sh_pc' = "slice_type"
    /\ UNCHANGED <<sh_codec, sh_bits, nal_unit_type, sh_sps, sh_pps, pred_weight_table, sh_exc>>
    /\ UNCHANGED outside_slice_header

AddressNext ==
    \/ SliceHeaderStart
    \/ DependentSliceSegmentFlag
    \/ SliceSegmentAddress

AddressSpec == AddressInit /\ [][AddressNext]_vars

(* the step that read slice_segment_address, with the data for it there *)
AddressRead ==
    /\ sh_pc = "address"
    /\ sh_pc' = "slice_type"
    /\ PicSizeInCtbsY(sh_sps) > 0
    /\ slice_header'["slice_segment_address"].t = "int"

(* C24: the step that reads slice_segment_address of a non-first slice
   segment moves the cursor by ceil(log2(PicSizeInCtbsY)) bits, no bit when
   PicSizeInCtbsY is 1 *)
C24_AddressWidth ==
    [][AddressRead => sh_pos' - sh_pos = CeilLog2(PicSizeInCtbsY(sh_sps))]_vars

(* the same for pictures of more than one coding tree block *)
AddressWidthOfLargePictures ==
    [][(AddressRead /\ PicSizeInCtbsY(sh_sps) > 1)
           => sh_pos' - sh_pos = CeilLog2(PicSizeInCtbsY(sh_sps))]_vars

(***************************************************************************)
(* frame_num and the picture order count of a slice header: H.264          *)
(* parse_slice_header from line 1385 to line 1415, H.265                   *)
(* parse_slice_segment_header lines 2175-2177.  Each part starts with the  *)
(* BitStream at the first bit it reads; a step reads one syntax element,   *)
(* so that the cursor before and after it tells the element's width.       *)
(***************************************************************************)
MaxPocBits == 9

(* a variant: four bits whatever the SPS says *)
frame_num_bits_Fixed(sps) == 4

(* h264_parser.py 1385 *)
frame_num_bits(sps) == sps.log2_max_frame_num_minus4 + 4

(* h264_parser.py 1400; hevc_parser.py 2176 *)
poc_lsb_bits(sps) == sps.log2_max_pic_order_cnt_lsb_minus4.v + 4

(* h264_parser.py 1390-1391 *)
bottom_field_flag(s) ==
    IF Truthy(Val(s, "field_pic_flag"))
    THEN read_bool_safe(s, "bottom_field_flag")
    ELSE s

(* h264_parser.py 1388-1393 *)
field_pic_flag(s, sps) ==
    IF ~sps.frame_mbs_only_flag
    THEN bottom_field_flag(read_bool_safe(s, "field_pic_flag"))
    ELSE Bound(s, "field_pic_flag", PyBool(0), s.pos)

(* h264_parser.py 1395-1397 *)
idr_pic_id(s, type) ==
    IF type = 5 THEN read_ue_safe(s, "idr_pic_id") ELSE s

(* h264_parser.py 1403-1405 *)
delta_pic_order_cnt_bottom(s, pps) ==
    IF pps.bottom_field_pic_order_in_frame_present_flag
           /\ ~Truthy(Val(s, "field_pic_flag"))
    THEN read_se_safe(s, "delta_pic_order_cnt_bottom")
    ELSE s

(* h264_parser.py 1409-1415; read_se_safe of h264_parser.py 35-42 gives what
   that of hevc_parser.py 100-107 gives *)
delta_pic_order_cnt(s, pps) ==
    LET first == hevc_read_se_safe(s.bits, s.pos)
        second == hevc_read_se_safe(s.bits, first.pos)
    IN IF pps.bottom_field_pic_order_in_frame_present_flag
              /\ ~Truthy(Val(s, "field_pic_flag"))
       THEN Bound(s, "delta_pic_order_cnt", PyList(<<first.val, second.val>>), second.pos)
       ELSE Bound(s, "delta_pic_order_cnt", PyList(<<first.val>>), first.pos)

(* the SPS fields parse_slice_header reads here; parse_sps gives
   log2_max_pic_order_cnt_lsb_minus4 None unless pic_order_cnt_type is 0
   (h264_parser.py 413) *)
H264SliceSps ==
    {sps \in [log2_max_frame_num_minus4 : {0, 1},
              pic_order_cnt_type : {0, 1, 2},
              log2_max_pic_order_cnt_lsb_minus4 : {PyInt(0), PyInt(1), PyNone},
              frame_mbs_only_flag : BOOLEAN,
              delta_pic_order_always_zero_flag : {FALSE}] :
        (sps.pic_order_cnt_type = 0) = (sps.log2_max_pic_order_cnt_lsb_minus4 # PyNone)}

HevcSliceSps == [log2_max_pic_order_cnt_lsb_minus4 : {PyInt(0), PyInt(1)}]

PocInit ==
    /\ SeiIdle
    /\ AnalyzeIdle
    /\ ParseIdle
    /\ EpbIdle
    /\ DispatchIdle
    /\ HeifIdle
    /\ SelectIdle
    /\ SpsIdle
    /\ RpsIdle
    /\ sh_codec \in {"H.264", "H.265"}
    /\ sh_bits \in SeqsUpTo({0, 1}, MaxPocBits)
    /\ sh_pos = 0
    /\ IF sh_codec = "H.264"
       THEN /\ sh_pc = "frame_num"
            /\ nal_unit_type \in {1, 5}
            /\ sh_sps \in H264SliceSps
            /\ sh_pps = [bottom_field_pic_order_in_frame_present_flag |-> TRUE]
            /\ slice_header = [k \in {"first_mb_in_slice", "slice_type",
                                      "pic_parameter_set_id"} |-> PyInt(0)]
       ELSE /\ sh_pc = "poc"
            /\ nal_unit_type \in {1, 19}
            /\ sh_sps \in HevcSliceSps
            /\ sh_pps = <<>>
            /\ slice_header = [k \in {"slice_type"} |-> PyStr("P")]
    /\ pred_weight_table = <<>>
    /\ sh_exc = "none"

(* the BitStream and the header as a step of parse_slice_header finds them *)
H264Reader == [bits |-> sh_bits, pos |-> sh_pos, f |-> slice_header, exc |-> "none"]

H264Step(s, next_pc) ==
    /\ slice_header' = s.f
    /\ sh_pos' = s.pos
    /\ sh_exc' = s.exc
    /\ sh_pc' = IF s.exc = "none" THEN next_pc ELSE "raised"
    /\ UNCHANGED <<sh_codec, sh_bits, nal_unit_type, sh_sps, sh_pps, pred_weight_table>>
    /\ UNCHANGED outside_slice_header

(* h264_parser.py 1385-1386 *)
H264FrameNum ==
    /\ sh_codec = "H.264"
    /\ sh_pc = "frame_num"
    /\ H264Step(read_uint_safe(H264Reader, "frame_num", frame_num_bits(sh_sps)),
                "field_pic")

(* h264_parser.py 1388-1393 *)
H264FieldPicFlag ==
    /\ sh_codec = "H.264"
    /\ sh_pc = "field_pic"
    /\ H264Step(field_pic_flag(H264Reader, sh_sps), "idr")

(* h264_parser.py 1395-1397 *)
H264IdrPicId ==
    /\ sh_codec = "H.264"
    /\ sh_pc = "idr"
    /\ H264Step(idr_pic_id(H264Reader, nal_unit_type), "poc")

(* h264_parser.py 1399-1401 *)
H264PicOrderCntLsb ==
    /\ sh_codec = "H.264"
    /\ sh_pc = "poc"
    /\ sh_sps.pic_order_cnt_type = 0
    /\ H264Step(read_uint_safe(H264Reader, "pic_order_cnt_lsb", poc_lsb_bits(sh_sps)),
                "delta")

(* h264_parser.py 1403-1415 *)
H264DeltaPicOrderCnt ==
    /\ sh_codec = "H.264"
    /\ \/ sh_pc = "delta"
       \/ sh_pc = "poc" /\ sh_sps.pic_order_cnt_type # 0
    /\ H264Step(IF sh_sps.pic_order_cnt_type = 0
                THEN delta_pic_order_cnt_bottom(H264Reader, sh_pps)
                ELSE IF sh_sps.pic_order_cnt_type = 1
                         /\ ~sh_sps.delta_pic_order_always_zero_flag
                THEN delta_pic_order_cnt(H264Reader, sh_pps)
                ELSE H264Reader,
                "poc_done")

HevcStep(t, next_pc) ==
    /\ slice_header' = t.f
    /\ sh_pos' = t.pos
    /\ sh_pc' = next_pc
    /\ UNCHANGED <<sh_codec, sh_bits, nal_unit_type, sh_sps, sh_pps,
                   pred_weight_table, sh_exc>>
    /\ UNCHANGED outside_slice_header

(* hevc_parser.py 2175-2176 *)
HevcPicOrderCntLsb ==
    /\ sh_codec = "H.265"
    /\ sh_pc = "poc"
    /\ nal_unit_type # 19 /\ nal_unit_type # 20
    /\ HevcStep(Field([f |-> slice_header, pos |-> sh_pos], "slice_pic_order_cnt_lsb",
                      hevc_read_uint_safe(sh_bits, sh_pos, poc_lsb_bits(sh_sps))),
                "st_flag")

(* hevc_parser.py 2177 *)
HevcShortTermRefPicSetSpsFlag ==
    /\ sh_codec = "H.265"
    /\ sh_pc = "st_flag"
    /\ HevcStep(Field([f |-> slice_header, pos |-> sh_pos],
                      "short_term_ref_pic_set_sps_flag",
                      hevc_read_bool_safe(sh_bits, sh_pos)),
                "poc_done")

PocNext ==
    \/ H264FrameNum
    \/ H264FieldPicFlag
    \/ H264IdrPicId
    \/ H264PicOrderCntLsb
    \/ H264DeltaPicOrderCnt
    \/ HevcPicOrderCntLsb
    \/ HevcShortTermRefPicSetSpsFlag

PocSpec == PocInit /\ [][PocNext]_vars

(* the step that read frame_num, with the data for it there *)
FrameNumRead ==
    /\ sh_pc = "frame_num"
    /\ sh_pc' = "field_pic"
    /\ slice_header'["frame_num"].t = "int"

LsbKey == IF sh_codec = "H.264" THEN "pic_order_cnt_lsb" ELSE "slice_pic_order_cnt_lsb"

(* the step that read the picture order count lsb, with the data for it there *)
LsbRead ==
    /\ sh_pc = "poc"
    /\ sh_pc' \in {"delta", "st_flag"}
    /\ slice_header'[LsbKey].t = "int"

(* C25: the step that reads frame_num moves the cursor by
   sps.log2_max_frame_num_minus4 + 4 bits, the step that reads the picture
   order count lsb (H.264 and H.265) by
   sps.log2_max_pic_order_cnt_lsb_minus4 + 4 bits, and an H.264 header has
   pic_order_cnt_lsb exactly when the pic_order_cnt_type of the SPS is 0 *)
C25_FieldWidths ==
    /\ [][/\ FrameNumRead
              => sh_pos' - sh_pos = sh_sps.log2_max_frame_num_minus4 + 4
          /\ LsbRead
              => sh_pos' - sh_pos = sh_sps.log2_max_pic_order_cnt_lsb_minus4.v + 4]_vars
    /\ []((sh_codec = "H.264" /\ sh_pc = "poc_done")
              => (("pic_order_cnt_lsb" \in DOMAIN slice_header)
                      <=> (sh_sps.pic_order_cnt_type = 0)))

C25_Witness ==
    /\ sh_codec = "H.264"
    /\ sh_pc = "poc_done"
    /\ sh_sps.log2_max_frame_num_minus4 = 1
    /\ slice_header["frame_num"].t = "int"
    /\ "pic_order_cnt_lsb" \in DOMAIN slice_header
    /\ slice_header["pic_order_cnt_lsb"].t = "int"
    /\ sh_pos >= 9

(***************************************************************************)
(* Properties of analyze_apple as a whole (Spec).                          *)
(***************************************************************************)

(* the iteration of the trim loop for a video with an edit list has ended *)
EditListVideoDone == pc = "next" /\ trak.edts

(* no file with an edit list is finished without a trim verdict *)
SomeVerdict == EditListVideoDone => Len(trim_out[idx]) >= 1

(* no file gets two trim verdicts *)
NoSecondVerdict == \A f \in Files : Len(trim_out[f]) <= 1

(* C26: when the iteration of the trim loop for a video whose first trak
   has an edit list ends, exactly one trim verdict has been printed for it,
   and no file ever has more than one *)
C26_ExactlyOneVerdict == SomeVerdict /\ NoSecondVerdict

(* C27: analyze_apple never raises at a record that has no moov tree (a raw
   .h264/.h265 record, whose container field is a string, or a HEIF
   record): whenever an exception has been raised, the record being
   processed is an MP4 record with a moov box *)
C27_NoRaiseWithoutMoov ==
    pc = "raised" => all_parsed_data[idx].container = "moov"

(* the 'Extracted unreferenced frames.' verdict has been printed for file f *)
ExtractedVerdict(f) ==
    \E i \in 1..Len(trim_out[f]) : trim_out[f][i] = V_EXTRACTED

(* C28: the 'Extracted unreferenced frames.' verdict of the file being
   processed is not printed while its extraction call is still to be made,
   nor when that call has failed (non-zero exit: analyze_apple returned) or
   could not be started (an exception was raised) *)
C28_VerdictAfterExtraction ==
    pc \in {"extract", "returned", "raised"} => ~ExtractedVerdict(idx)

(***************************************************************************)
(* parse_sei_prefix (hevc_parser.py 1198-1209; parse_sei_suffix, 1211-1222,*)
(* is the same loop): the messages of one SEI NAL unit, read one after     *)
(* another from a single BitStream.  The sps argument is None (no SPS seen *)
(* before the SEI) or an SPS whose vui_parameters_present_flag is 0.       *)
(***************************************************************************)
MaxSeiLen == 5

(* payload types 0 (buffering_period), 1 (pic_timing), 7 (not in the
   dispatch table), 135 (no_display), 147 (alternative transfer
   characteristics); 255 is the extension byte of type and size; 0 and 1
   also serve as payload sizes *)
SeiBytes == {0, 1, 7, 135, 147, 255}

SeiSpsArguments == {"None", "no_vui"}

(* hevc_parser.py 1078-1190: the payload types parse_sei_payload has a
   branch for *)
ListedPayloadTypes ==
    (0..6) \cup {9, 15, 16, 17, 19, 22, 23, 45, 47} \cup (128..152)
        \cup (154..159) \cup (161..165) \cup {200, 201, 202}

SeiResult(val, pos, e) == [val |-> val, pos |-> pos, exc |-> e]

(* hevc_parser.py 1042-1045: the bits up to the next byte boundary are read
   and added to the payload type *)
RECURSIVE sei_align(_, _, _)
sei_align(bits, pos, acc) ==
    IF pos % 8 = 0 THEN SeiResult(acc, pos, "none")
    ELSE sei_align(bits, pos + 1, acc + bits[pos + 1])

(* hevc_parser.py 1046-1048 and 1055-1057: bs.peek('uint:8') raises
   ReadError when fewer than 8 bits are left *)
RECURSIVE sei_ff_bytes(_, _, _)
sei_ff_bytes(bits, pos, acc) ==
    IF pos + 8 > Len(bits) THEN SeiResult(acc, pos, "ReadError")
    ELSE IF Uint(bits, pos, 8) = 255 THEN sei_ff_bytes(bits, pos + 8, acc + 255)
    ELSE SeiResult(acc, pos, "none")

(* hevc_parser.py 1046-1051 and 1055-1060: 0xFF bytes, then one last byte
   when it can be read *)
sei_number(bits, pos, acc) ==
    LET ff == sei_ff_bytes(bits, pos, acc)
        last == hevc_read_uint_safe(bits, ff.pos, 8)
    IN IF ff.exc # "none" THEN ff
       ELSE IF last.val = PyNone THEN ff
       ELSE SeiResult(ff.val + last.val.v, last.pos, "none")

(* hevc_parser.py 1037-1062 *)
parse_sei_message(bits, pos) ==
    LET aligned == sei_align(bits, pos, 0)
        type == sei_number(bits, aligned.pos, aligned.val)
        size == sei_number(bits, type.pos, 0)
    IN IF type.exc # "none"
       THEN [payload_type |-> type.val, payload_size |-> 0,
             pos |-> type.pos, exc |-> type.exc]
       ELSE [payload_type |-> type.val, payload_size |-> size.val,
             pos |-> size.pos, exc |-> size.exc]

(* hevc_parser.py 1224-1226: sps is subscripted at once; without VUI
   parameters nothing is read *)
parse_buffering_period(pos, sps) ==
    IF sps = "None" THEN SeiResult(0, pos, "TypeError")
    ELSE SeiResult(0, pos, "none")

(* hevc_parser.py 1260-1262, 1285 *)
parse_pic_timing(pos, sps) ==
    IF sps = "None" THEN SeiResult(0, pos, "AttributeError")
    ELSE SeiResult(0, pos, "none")

(* hevc_parser.py 1589-1591 *)
parse_no_display(pos) == SeiResult(0, pos, "none")

(* hevc_parser.py 1770-1773 *)
parse_alternative_transfer_characteristics(bits, pos) ==
    SeiResult(0, hevc_read_uint_safe(bits, pos, 8).pos, "none")

(* hevc_parser.py 1192: bs.read('bytes:' + str(payload_size)) *)
read_bytes(bits, pos, payload_size) ==
    IF pos + 8 * payload_size > Len(bits) THEN SeiResult(0, pos, "ReadError")
    ELSE SeiResult(payload_size, pos + 8 * payload_size, "none")

(* hevc_parser.py 1072-1196, for the payload types of SeiBytes *)
parse_sei_payload(bits, pos, payload_type, payload_size, sps) ==
    CASE payload_type = 0 -> parse_buffering_period(pos, sps)
      [] payload_type = 1 -> parse_pic_timing(pos, sps)
      [] payload_type = 135 -> parse_no_display(pos)
      [] payload_type = 147 -> parse_alternative_transfer_characteristics(bits, pos)
      [] payload_type \notin ListedPayloadTypes -> read_bytes(bits, pos, payload_size)

SeiInit ==
    /\ AnalyzeIdle
    /\ ParseIdle
    /\ EpbIdle
    /\ DispatchIdle
    /\ HeifIdle
    /\ SelectIdle
    /\ SpsIdle
    /\ RpsIdle
    /\ SliceHeaderIdle
    /\ sei_pc = "loop"
    /\ sei_bits \in {Bits(d) : d \in SeqsUpTo(SeiBytes, MaxSeiLen)}
    /\ sei_sps \in SeiSpsArguments
    /\ sei_pos = 0
    /\ message = <<>>
    /\ start_pos = 0
    /\ messages = <<>>
    /\ sei_exc = "none"

(* hevc_parser.py 1203-1204: the loop condition holds, parse_sei_message *)
SeiMessage ==
    /\ sei_pc = "loop"
    /\ sei_pos < Len(sei_bits) - 8
    /\ LET m == parse_sei_message(sei_bits, sei_pos)
       IN /\ sei_pos' = m.pos
          /\ message' = [payload_type |-> m.payload_type,
                         payload_size |-> m.payload_size]
          /\ sei_exc' = m.exc
          /\ sei_pc' = IF m.exc # "none" THEN "raised" ELSE "payload"
    /\ UNCHANGED <<sei_bits, sei_sps, start_pos, messages>>
    /\ UNCHANGED outside_sei

(* hevc_parser.py 1205-1207: parse_sei_payload and the append *)
SeiPayload ==
    /\ sei_pc = "payload"
    /\ start_pos' = sei_pos
    /\ LET p == parse_sei_payload(sei_bits, sei_pos, message.payload_type,
                                  message.payload_size, sei_sps)
       IN /\ sei_pos' = p.pos
          /\ sei_exc' = p.exc
          /\ IF p.exc # "none"
             THEN /\ sei_pc' = "raised"
                  /\ UNCHANGED messages
             ELSE /\ sei_pc' = "loop"
                  /\ messages' = Append(messages,
                                        [type |-> message.payload_type,
                                         size |-> message.payload_size,
                                         raw_bytes |-> p.val])
    /\ UNCHANGED <<sei_bits, sei_sps, message>>
    /\ UNCHANGED outside_sei

(* hevc_parser.py 1203 and 1209: the loop condition fails *)
SeiReturn ==
    /\ sei_pc = "loop"
    /\ ~(sei_pos < Len(sei_bits) - 8)
    /\ sei_pc' = "returned"
    /\ UNCHANGED <<sei_bits, sei_sps, sei_pos, message, start_pos, messages,
                   sei_exc>>
    /\ UNCHANGED outside_sei

SeiNext ==
    \/ SeiMessage
    \/ SeiPayload
    \/ SeiReturn

SeiSpec == SeiInit /\ [][SeiNext]_vars

(* a message has been parsed and appended, and nothing was read since *)
MessageParsed == sei_pc \in {"loop", "returned"} /\ messages # <<>>

(* messages of a type outside the dispatch table end payload_size bytes
   after their start, with that many raw bytes kept *)
RawPayloadKept ==
    (MessageParsed /\ Latest(messages).type \notin ListedPayloadTypes)
        => /\ sei_pos = start_pos + 8 * Latest(messages).size
           /\ Latest(messages).raw_bytes = Latest(messages).size

(* C30: after each SEI message has been parsed, bs.pos is payload_size * 8
   bits past the position where the message's payload started, whatever the
   payload type, and a payload of a type outside the dispatch table is kept
   as payload_size raw bytes *)
C30_CursorAfterPayload ==
    /\ MessageParsed => sei_pos = start_pos + 8 * Latest(messages).size
    /\ RawPayloadKept

=============================================================================
